---- MODULE Spec2Model ----
(***************************************************************************)
(* A model of the bot supervisor (supervisor/main.py), of the alert        *)
(* cooldown of the health monitor (supervisor/health_monitor.py) and of    *)
(* the backup retention (services/backup_manager.py), and of the file      *)
(* index of the indexer bot (bot/index_bot.py).                            *)
(*                                                                         *)
(* The supervisor is a single-threaded asyncio program: every action below *)
(* is the code one task runs between two suspension points (await).        *)
(***************************************************************************)
EXTENDS Integers, Sequences, FiniteSets, TLC

VARIABLES
    scripts,          \* BotSupervisor.scripts, the constructor's argument
    processes,        \* BotSupervisor.processes, in append order
    shutdown_signal,  \* BotSupervisor.shutdown_signal (asyncio.Event)
    restart_counts,   \* BotSupervisor.restart_counts
    pc,               \* where each task (run_script, health, backup) is suspended
    proc,             \* run_script's local `proc`: an index into processes, 0 before the first spawn
    returncode,       \* proc.returncode as run_script reads it (None while running)
    timer,            \* the seconds of the asyncio.sleep / wait_for timeout each task is in (0: in none)
    mem_percent,      \* psutil.virtual_memory().percent
    sd_pc,            \* where each shutdown() call is
    sd_i,             \* the index shutdown()'s for loop is at
    alerts,           \* send_alert calls made by each run_script, by kind
    exits,            \* per worker: process exits seen so far (total non-zero, current non-zero streak)
    excs,             \* per worker: exceptions raised by create_subprocess_exec so far
    clock,            \* time.time() as the health monitor reads it
    last_alert_time,  \* HealthMonitor.last_alert_time, a dict from alert type to time
    hm_pc,            \* where run_health_check is
    hm_todo,          \* the alert types run_health_check has still to raise in this cycle
    current_time,     \* send_health_alert's local current_time while it awaits send_alert
    hm_sent,          \* per alert type: the times at which send_alert was called
    hm_cycle,         \* the send_alert calls of the current (or the last) run_health_check
    hm_failed,        \* that run_health_check raised an exception inside its try block
    hm_after_failed,  \* the run_health_check before it did
    hm_dropped,       \* per alert type: the time of the last breach that sent no alert (0: none)
    bk_clock,         \* datetime.now(), in seconds, as the backup manager reads it
    backup_dir,       \* the folders under backups/: name -> whether backup_info.json is in it
    bk_slept,         \* the interval sleep after the last create_backup is over
    bk_last,          \* how the last create_backup ended
    bk_created,       \* the timestamps of all the folders ever made
    bk_removed,       \* the folders the last cleanup_old_backups removed, in order
    bk_fails,         \* filesystem errors so far
    bk_alert,         \* the alert the last create_backup sent
    bk_content,       \* what each folder under backups/ holds: item -> the copy of it
    tree,             \* the working tree: what is at the path of each backed-up item
    rs_name,          \* the backup_name of the last restore_from_backup call
    rs_result,        \* how that call ended: "True", "False" or the exception it raised
    rs_alert,         \* the alert that call sent
    rs_turn,          \* the number of restore_from_backup calls so far, modulo 2
    mon_pc,           \* where monitor() and, after it, main() are
    fatal_alerts,     \* send_alert("Fatal monitor crash") calls made by monitor()
    exit_status,      \* the exit status of the program (None while it runs)
    BOT_TOKEN,        \* notifier.BOT_TOKEN is set (a string that is not empty)
    CHAT_ID,          \* notifier.CHAT_ID is set
    resp,             \* what session.post of send_alert meets: a status, or an exception
    loop_time,        \* the event loop's time, in seconds since monitor() began
    wrote,            \* per process and stream: the number of lines the process wrote
    unread,           \* per process and stream: the lines in the StreamReader, not read yet
    logged,           \* per process and stream: the lines read_stream gave to logger.info
    rd_pc,            \* per process and stream: where read_stream is
    INDEX_FILE,       \* index_bot: what file_index.json holds, a list of entries (<<>>: no file)
    media,            \* per message posted to the channel, by id: that it carries a media
    channel,          \* the ids of the messages that are in the channel (posted, not deleted)
    delivered,        \* per message id: how many times its update was given to on_new_media
    cd_pc,            \* where check_deleted_files is suspended
    cd_index,         \* check_deleted_files' local `index`
    cd_i,             \* the position of its for loop in that list
    to_remove,        \* check_deleted_files' local `to_remove`
    ib_faults,        \* index_bot: filesystem errors of load_index and save_index so far
    indexed,          \* the message ids of the entries on_new_media saved
    found_deleted     \* the message ids check_deleted_files put in a to_remove

supvars == <<scripts, processes, shutdown_signal, restart_counts, pc, proc,
             returncode, timer, mem_percent, sd_pc, sd_i, alerts, exits, excs>>

hcvars == <<hm_cycle, hm_failed, hm_after_failed>>

hmvars == <<clock, last_alert_time, hm_pc, hm_todo, current_time, hm_sent, hm_dropped, hcvars>>

rsvars == <<rs_name, rs_result, rs_alert, rs_turn>>

bkvars == <<bk_clock, backup_dir, bk_slept, bk_last, bk_created, bk_removed, bk_fails,
            bk_alert, bk_content, tree, rsvars>>

navars == <<BOT_TOKEN, CHAT_ID, resp>>

stvars == <<wrote, unread, logged, rd_pc>>

ibvars == <<INDEX_FILE, media, channel, delivered, cd_pc, cd_index, cd_i, to_remove,
            ib_faults, indexed, found_deleted>>

monvars == <<mon_pc, fatal_alerts, exit_status, navars, loop_time, stvars, ibvars>>

vars == <<supvars, hmvars, bkvars, monvars>>

----------------------------------------------------------------------------
(* Bounds of the model *)

\* processes one supervisor with a single worker may spawn
MaxSpawns == 7
\* processes one supervisor with two workers may spawn
MaxSpawnsMulti == 2
\* exceptions create_subprocess_exec may raise in a supervisor with a single worker
\* (none is explored in a supervisor with two)
MaxExc == 2

\* time.time() when the health monitor starts: like today's epoch seconds, more
\* than alert_cooldown
Epoch == 2000
\* seconds the health monitor is followed for
MaxElapsed == 1900
\* the last second the backup manager is followed to
MaxTs == 13
\* filesystem errors the backup manager may meet
MaxFail == 1
\* processes the worker may spawn, and exceptions create_subprocess_exec may
\* raise, where the awaits of send_alert are followed
MaxSpawnsNotify == 5
MaxExcNotify == 1
\* the seconds the startup of the workers is followed for, and the processes
\* one supervisor with three workers may spawn
MaxNow == 25
MaxSpawnsStartup == 3
\* the processes whose output is followed, and the lines each writes to a stream
MaxRuns == 2
MaxLines == 2
\* seconds that may go by without a backup
MaxSkip == 2

----------------------------------------------------------------------------
(* Program constants *)

alert_cooldown == 1800
max_backups == 10

max_restarts == 5
MemThreshold == 90
ResourceSleep == 10
LongBackoff == 3600
ShortBackoff == 30
ExcSleep == 10
GraceTimeout == 5
StartupStep == 10
HealthInterval == 300
BackupInterval == 21600

\* returncode of a process that has not exited (Python's None)
None == 1000
\* exit codes of a worker process left alone by shutdown(); 2 stands for every
\* code other than 0 and 1 (the code of a process the dashboard's restart_bot
\* terminated among them)
ExitCodes == {0, 1, 2}
\* returncode of a process ended by SIGTERM (terminate) and by SIGKILL (kill)
SigTerm == -15
SigKill == -9

\* the script lists a supervisor is constructed with
ScriptLists == {<<"index_bot.py">>, <<"index_bot.py", "file_forwarder_sc.py">>}
\* mem_percent when psutil.virtual_memory() raises
MemError == -1
MemLevels == {90, 91, MemError}
\* the shutdown() calls: of the handler of a first signal and of a later one,
\* and of monitor()'s finally clause
ShutdownCalls == {"signal", "again", "finally"}

Range(s) == {s[i] : i \in 1..Len(s)}
Workers == Range(scripts)
Loops == {"health", "backup"}
Tasks == Workers \cup Loops
SpawnCap ==
    IF Len(scripts) = 1 THEN MaxSpawns
    ELSE IF Len(scripts) = 2 THEN MaxSpawnsMulti
    ELSE MaxSpawnsStartup
ExcCap == IF Len(scripts) = 1 THEN MaxExc ELSE 0

----------------------------------------------------------------------------
(* BotSupervisor.__init__, and monitor() up to its await of gather: the     *)
(* tasks it created have each run to their first suspension, the workers   *)
(* to asyncio.sleep(delay), the two loops through their first cycle to     *)
(* their interval sleep.                                                   *)

startup_delays(i) == (i - 1) * StartupStep

\* the sleep that ends a cycle of run_health_monitor and of run_backup_manager
interval(l) == IF l = "health" THEN HealthInterval ELSE BackupInterval

SupStart(list, mem) ==
    /\ scripts = list
    /\ processes = <<>>
    /\ shutdown_signal = FALSE
    /\ restart_counts = [s \in Range(scripts) |-> 0]
    /\ pc = [t \in Range(scripts) \cup Loops |-> IF t \in Loops THEN "sleep" ELSE "delay"]
    /\ proc = [s \in Range(scripts) |-> 0]
    /\ returncode = [s \in Range(scripts) |-> None]
    /\ timer = [t \in Range(scripts) \cup Loops \cup ShutdownCalls |->
                  IF t \in Range(scripts)
                  THEN startup_delays(CHOOSE i \in 1..Len(scripts) : scripts[i] = t)
                  ELSE IF t \in Loops THEN interval(t) ELSE 0]
    /\ mem_percent = mem
    /\ sd_pc = [s \in ShutdownCalls |-> "idle"]
    /\ sd_i = [s \in ShutdownCalls |-> 0]
    /\ alerts = [s \in Range(scripts) |-> [notfound |-> 0, crashed |-> 0, maxed |-> 0, error |-> 0]]
    /\ exits = [s \in Range(scripts) |-> [nonzero |-> 0, streak |-> 0]]
    /\ excs = [s \in Range(scripts) |-> 0]

SupInit == \E list \in ScriptLists, mem \in MemLevels : SupStart(list, mem)

\* the two pipes of a worker process
Streams == {"stdout", "stderr"}

\* what session.post may meet: status 200, another status, an exception of the
\* transport
Responses == {"200", "500", "exception"}

\* the environment of notifier.py: the two variables it reads when imported,
\* and the Telegram API as send_alert finds it
NotifierStart(token, chat, r) ==
    /\ BOT_TOKEN = token
    /\ CHAT_ID = chat
    /\ resp = r

\* the most messages posted to the channel
MaxMessages == 3

\* index_bot as main() starts it: no file_index.json yet, nothing posted to
\* the channel, check_deleted_files in its first sleep
IndexBotStart ==
    /\ INDEX_FILE = <<>>
    /\ media = <<>>
    /\ channel = {}
    /\ delivered = [m \in 1..MaxMessages |-> 0]
    /\ cd_pc = "sleep"
    /\ cd_index = <<>>
    /\ cd_i = 0
    /\ to_remove = <<>>
    /\ ib_faults = 0
    /\ indexed = {}
    /\ found_deleted = {}

\* monitor() awaits gather(*all_tasks); the program runs
MonStart ==
    /\ IndexBotStart
    /\ mon_pc = "gather"
    /\ fatal_alerts = 0
    /\ exit_status = None
    /\ loop_time = 0
    /\ wrote = [i \in 1..MaxRuns |-> [s \in Streams |-> 0]]
    /\ unread = [i \in 1..MaxRuns |-> [s \in Streams |-> <<>>]]
    /\ logged = [i \in 1..MaxRuns |-> [s \in Streams |-> <<>>]]
    /\ rd_pc = [i \in 1..MaxRuns |-> [s \in Streams |-> "readline"]]

\* the same, with alerts that are delivered
MonInit == MonStart /\ NotifierStart(TRUE, TRUE, "200")

----------------------------------------------------------------------------
(* The environment: time, memory, the worker processes *)

MemChange ==
    /\ \E m \in MemLevels : m # mem_percent /\ mem_percent' = m
    /\ UNCHANGED <<scripts, processes, shutdown_signal, restart_counts, pc, proc,
                   returncode, timer, sd_pc, sd_i, alerts, exits, excs, hmvars, bkvars, monvars>>

\* the codes process i may exit with: its own, -15 once terminated, -9 once killed
CodesOf(i) ==
    ExitCodes \cup (IF processes[i].terminated THEN {SigTerm} ELSE {})
              \cup (IF processes[i].killed THEN {SigKill} ELSE {})

\* process i exits; its returncode is set
ProcExit(i) ==
    /\ i \in 1..Len(processes)
    /\ processes[i].running
    /\ \E code \in CodesOf(i), w \in Workers :
        /\ proc[w] = i
        /\ returncode' = [returncode EXCEPT ![w] = code]
        /\ exits' = [exits EXCEPT ![w] =
                        IF code = 0 THEN [@ EXCEPT !.streak = 0]
                        ELSE [nonzero |-> @.nonzero + 1, streak |-> @.streak + 1]]
    /\ processes' = [processes EXCEPT ![i].running = FALSE]
    /\ UNCHANGED <<scripts, shutdown_signal, restart_counts, pc, proc, timer,
                   mem_percent, sd_pc, sd_i, alerts, excs, hmvars, bkvars, monvars>>

----------------------------------------------------------------------------
(* BotSupervisor.resource_check *)

\* resource_check with its comparison inverted
resource_check_inverted ==
    IF mem_percent = MemError THEN TRUE
    ELSE IF mem_percent > MemThreshold THEN TRUE
    ELSE FALSE

\* True: a process may be spawned. The except clause turns a psutil error into True
resource_check ==
    IF mem_percent = MemError THEN TRUE
    ELSE IF mem_percent > MemThreshold THEN FALSE
    ELSE TRUE

----------------------------------------------------------------------------
(* BotSupervisor.run_script *)

\* WhileLoop without the test of the shutdown signal
WhileLoop_while_true(w) ==
    IF ~resource_check
    THEN /\ pc' = [pc EXCEPT ![w] = "res_sleep"]
         /\ timer' = [timer EXCEPT ![w] = ResourceSleep]
    ELSE /\ pc' = [pc EXCEPT ![w] = "spawning"]
         /\ timer' = [timer EXCEPT ![w] = 0]

\* WhileLoop taking a refusal of resource_check for a failed attempt: the sleep
\* of a crash
WhileLoop_long_sleep(w) ==
    IF shutdown_signal
    THEN /\ pc' = [pc EXCEPT ![w] = "done"]
         /\ timer' = [timer EXCEPT ![w] = 0]
    ELSE IF ~resource_check
         THEN /\ pc' = [pc EXCEPT ![w] = "res_sleep"]
              /\ timer' = [timer EXCEPT ![w] = ShortBackoff]
         ELSE /\ pc' = [pc EXCEPT ![w] = "spawning"]
              /\ timer' = [timer EXCEPT ![w] = 0]

\* the while test, resource_check, and the call of create_subprocess_exec:
\* run_script runs them without suspending
WhileLoop(w) ==
    IF shutdown_signal
    THEN /\ pc' = [pc EXCEPT ![w] = "done"]
         /\ timer' = [timer EXCEPT ![w] = 0]
    ELSE IF ~resource_check
         THEN /\ pc' = [pc EXCEPT ![w] = "res_sleep"]
              /\ timer' = [timer EXCEPT ![w] = ResourceSleep]
         ELSE /\ pc' = [pc EXCEPT ![w] = "spawning"]
              /\ timer' = [timer EXCEPT ![w] = 0]

\* await asyncio.sleep(delay) is over; the script_path.exists() test
RunScriptStart(w) ==
    /\ pc[w] = "delay"
    /\ \E exists \in BOOLEAN :
        IF exists
        THEN /\ WhileLoop(w)
             /\ UNCHANGED alerts
        ELSE /\ pc' = [pc EXCEPT ![w] = "nf_alert"]
             /\ timer' = [timer EXCEPT ![w] = 0]
             /\ alerts' = [alerts EXCEPT ![w].notfound = @ + 1]
    /\ UNCHANGED <<scripts, processes, shutdown_signal, restart_counts, proc,
                   returncode, mem_percent, sd_pc, sd_i, exits, excs, hmvars, bkvars, monvars>>

\* NotFoundReturn without the return: on to the while loop
NotFoundReturn_continue(w) ==
    /\ pc[w] = "nf_alert"
    /\ WhileLoop(w)
    /\ UNCHANGED <<scripts, processes, shutdown_signal, restart_counts, proc,
                   returncode, mem_percent, sd_pc, sd_i, alerts, exits, excs, hmvars, bkvars, monvars>>

\* send_alert("Script not found") returned; return
NotFoundReturn(w) ==
    /\ pc[w] = "nf_alert"
    /\ pc' = [pc EXCEPT ![w] = "done"]
    /\ UNCHANGED <<scripts, processes, shutdown_signal, restart_counts, proc,
                   returncode, timer, mem_percent, sd_pc, sd_i, alerts, exits, excs, hmvars, bkvars, monvars>>

\* create_subprocess_exec returned a process: append it, start the readers, await proc.wait()
SpawnOk(w) ==
    /\ pc[w] = "spawning"
    /\ Len(processes) < SpawnCap
    /\ processes' = Append(processes, [running |-> TRUE, terminated |-> FALSE, killed |-> FALSE])
    /\ proc' = [proc EXCEPT ![w] = Len(processes) + 1]
    /\ returncode' = [returncode EXCEPT ![w] = None]
    /\ pc' = [pc EXCEPT ![w] = "wait"]
    /\ UNCHANGED <<scripts, shutdown_signal, restart_counts, timer, mem_percent,
                   sd_pc, sd_i, alerts, exits, excs, hmvars, bkvars, monvars>>

\* create_subprocess_exec raised: the except clause calls send_alert
SpawnFail(w) ==
    /\ pc[w] = "spawning"
    /\ excs[w] < ExcCap
    /\ excs' = [excs EXCEPT ![w] = @ + 1]
    /\ alerts' = [alerts EXCEPT ![w].error = @ + 1]
    /\ pc' = [pc EXCEPT ![w] = "exc_alert"]
    /\ UNCHANGED <<scripts, processes, shutdown_signal, restart_counts, proc,
                   returncode, timer, mem_percent, sd_pc, sd_i, exits, hmvars, bkvars, monvars>>

\* send_alert(err_msg) returned; asyncio.sleep(10)
ExcAlertReturn(w) ==
    /\ pc[w] = "exc_alert"
    /\ pc' = [pc EXCEPT ![w] = "exc_sleep"]
    /\ timer' = [timer EXCEPT ![w] = ExcSleep]
    /\ UNCHANGED <<scripts, processes, shutdown_signal, restart_counts, proc,
                   returncode, mem_percent, sd_pc, sd_i, alerts, exits, excs, hmvars, bkvars, monvars>>

\* the returncode test taking only positive codes for crashes
crashed_positive(code) == code > 0

\* the test of proc.returncode after proc.wait()
crashed(code) == code # 0

\* WaitReturn with one restart count shared by the workers: an exit with code 0
\* resets them all
WaitReturn_reset_all(w) ==
    /\ pc[w] = "wait"
    /\ ~processes[proc[w]].running
    /\ IF crashed(returncode[w])
       THEN /\ alerts' = [alerts EXCEPT ![w].crashed = @ + 1]
            /\ pc' = [pc EXCEPT ![w] = "crash_alert"]
            /\ UNCHANGED <<restart_counts, timer>>
       ELSE /\ restart_counts' = [v \in Workers |-> 0]
            /\ WhileLoop(w)
            /\ UNCHANGED alerts
    /\ UNCHANGED <<scripts, processes, shutdown_signal, proc, returncode,
                   mem_percent, sd_pc, sd_i, exits, excs, hmvars, bkvars, monvars>>

\* WaitReturn sending the "crashed" alert for the code 1 alone
WaitReturn_alert_code_1(w) ==
    /\ pc[w] = "wait"
    /\ ~processes[proc[w]].running
    /\ IF crashed(returncode[w])
       THEN /\ alerts' = [alerts EXCEPT ![w].crashed = IF returncode[w] = 1 THEN @ + 1 ELSE @]
            /\ pc' = [pc EXCEPT ![w] = "crash_alert"]
            /\ UNCHANGED <<restart_counts, timer>>
       ELSE /\ restart_counts' = [restart_counts EXCEPT ![w] = 0]
            /\ WhileLoop(w)
            /\ UNCHANGED alerts
    /\ UNCHANGED <<scripts, processes, shutdown_signal, proc, returncode,
                   mem_percent, sd_pc, sd_i, exits, excs, hmvars, bkvars, monvars>>

\* proc.wait() returned: cancel the readers, test proc.returncode
WaitReturn(w) ==
    /\ pc[w] = "wait"
    /\ ~processes[proc[w]].running
    /\ IF crashed(returncode[w])
       THEN /\ alerts' = [alerts EXCEPT ![w].crashed = @ + 1]
            /\ pc' = [pc EXCEPT ![w] = "crash_alert"]
            /\ UNCHANGED <<restart_counts, timer>>
       ELSE /\ restart_counts' = [restart_counts EXCEPT ![w] = 0]
            /\ WhileLoop(w)
            /\ UNCHANGED alerts
    /\ UNCHANGED <<scripts, processes, shutdown_signal, proc, returncode,
                   mem_percent, sd_pc, sd_i, exits, excs, hmvars, bkvars, monvars>>

\* the two sleeps after a crash, swapped
backoff_swapped(code) == IF code = 1 THEN ShortBackoff ELSE LongBackoff

\* the sleep after a crash
backoff(code) == IF code = 1 THEN LongBackoff ELSE ShortBackoff

\* the retiring test, off by one
maxed_late(count) == count > max_restarts

\* the test that retires a worker
maxed(count) == count >= max_restarts

\* CrashAlertReturn without the break after the "Max restarts reached" alert
CrashAlertReturn_no_break(w) ==
    /\ pc[w] = "crash_alert"
    /\ restart_counts' = [restart_counts EXCEPT ![w] = @ + 1]
    /\ alerts' = [alerts EXCEPT ![w].maxed = IF maxed(restart_counts'[w]) THEN @ + 1 ELSE @]
    /\ pc' = [pc EXCEPT ![w] = "backoff"]
    /\ timer' = [timer EXCEPT ![w] = backoff(returncode[w])]
    /\ UNCHANGED <<scripts, processes, shutdown_signal, proc, returncode,
                   mem_percent, sd_pc, sd_i, exits, excs, hmvars, bkvars, monvars>>

\* send_alert("crashed") returned: count the restart, then retire or back off
CrashAlertReturn(w) ==
    /\ pc[w] = "crash_alert"
    /\ restart_counts' = [restart_counts EXCEPT ![w] = @ + 1]
    /\ IF maxed(restart_counts'[w])
       THEN /\ alerts' = [alerts EXCEPT ![w].maxed = @ + 1]
            /\ pc' = [pc EXCEPT ![w] = "max_alert"]
            /\ UNCHANGED timer
       ELSE /\ pc' = [pc EXCEPT ![w] = "backoff"]
            /\ timer' = [timer EXCEPT ![w] = backoff(returncode[w])]
            /\ UNCHANGED alerts
    /\ UNCHANGED <<scripts, processes, shutdown_signal, proc, returncode,
                   mem_percent, sd_pc, sd_i, exits, excs, hmvars, bkvars, monvars>>

\* send_alert("Max restarts reached") returned; break
MaxAlertReturn(w) ==
    /\ pc[w] = "max_alert"
    /\ pc' = [pc EXCEPT ![w] = "done"]
    /\ UNCHANGED <<scripts, processes, shutdown_signal, restart_counts, proc,
                   returncode, timer, mem_percent, sd_pc, sd_i, alerts, exits, excs, hmvars, bkvars, monvars>>

Sleeps == {"res_sleep", "backoff", "exc_sleep"}

\* an asyncio.sleep inside the while loop ran its full time: back to the while test
SleepReturn(w) ==
    /\ pc[w] \in Sleeps
    /\ WhileLoop(w)
    /\ UNCHANGED <<scripts, processes, shutdown_signal, restart_counts, proc,
                   returncode, mem_percent, sd_pc, sd_i, alerts, exits, excs, hmvars, bkvars, monvars>>

----------------------------------------------------------------------------
(* BotSupervisor.run_health_monitor and run_backup_manager *)

\* the while test, one cycle (run_health_check or create_backup), then the interval sleep
Cycle(l) ==
    IF shutdown_signal
    THEN /\ pc' = [pc EXCEPT ![l] = "done"]
         /\ timer' = [timer EXCEPT ![l] = 0]
    ELSE /\ pc' = [pc EXCEPT ![l] = "sleep"]
         /\ timer' = [timer EXCEPT ![l] = interval(l)]

\* the interval sleep ran its full time
LoopWake(l) ==
    /\ pc[l] = "sleep"
    /\ Cycle(l)
    /\ UNCHANGED <<scripts, processes, shutdown_signal, restart_counts, proc,
                   returncode, mem_percent, sd_pc, sd_i, alerts, exits, excs, hmvars, bkvars, monvars>>

----------------------------------------------------------------------------
(* BotSupervisor.shutdown *)

RECURSIVE NextLive(_, _)
\* the first index from i on of a process whose returncode is None
NextLive(ps, i) ==
    IF i > Len(ps) THEN i
    ELSE IF ps[i].running THEN i
    ELSE NextLive(ps, i + 1)

\* the for loop from index i on, up to its next await (or its end)
ShutdownFrom(s, ps, i) ==
    LET j == NextLive(ps, i) IN
    IF j > Len(ps)
    THEN /\ sd_pc' = [sd_pc EXCEPT ![s] = "done"]
         /\ sd_i' = [sd_i EXCEPT ![s] = j]
         /\ processes' = ps
         /\ timer' = [timer EXCEPT ![s] = 0]
    ELSE /\ sd_pc' = [sd_pc EXCEPT ![s] = "grace"]
         /\ sd_i' = [sd_i EXCEPT ![s] = j]
         /\ processes' = [ps EXCEPT ![j].terminated = TRUE]
         /\ timer' = [timer EXCEPT ![s] = GraceTimeout]

\* ShutdownStart with an Event that a second set() clears
ShutdownStart_toggle(s) ==
    /\ shutdown_signal' = ~shutdown_signal
    /\ ShutdownFrom(s, processes, 1)
    /\ UNCHANGED <<scripts, restart_counts, pc, proc, returncode, mem_percent,
                   alerts, exits, excs, hmvars, bkvars>>

\* shutdown() starts: set the signal, enter the for loop
ShutdownStart(s) ==
    /\ shutdown_signal' = TRUE
    /\ ShutdownFrom(s, processes, 1)
    /\ UNCHANGED <<scripts, restart_counts, pc, proc, returncode, mem_percent,
                   alerts, exits, excs, hmvars, bkvars>>

\* a SIGINT or SIGTERM arrives: the handler creates a task running shutdown()
Signal ==
    /\ exit_status = None
    /\ sd_pc["signal"] = "idle"
    /\ sd_pc["finally"] = "idle"
    /\ ShutdownStart("signal")
    /\ UNCHANGED monvars

\* another SIGINT or SIGTERM arrives when a shutdown() has begun: the handler
\* creates one more task running shutdown()
SignalAgain ==
    /\ exit_status = None
    /\ sd_pc["signal"] # "idle" \/ sd_pc["finally"] # "idle"
    /\ sd_pc["again"] = "idle"
    /\ ShutdownStart("again")
    /\ UNCHANGED monvars

\* gather(*all_tasks) returned: the finally clause of monitor() runs shutdown()
MonitorFinally ==
    /\ sd_pc["finally"] = "idle"
    /\ \A t \in Tasks : pc[t] = "done"
    /\ mon_pc = "gather"
    /\ ShutdownStart("finally")
    /\ mon_pc' = "shutdown"
    /\ UNCHANGED <<fatal_alerts, exit_status, navars, loop_time, stvars, ibvars>>

\* wait_for(proc.wait(), timeout=5) returned: the process exited in time
GraceExit(s) ==
    /\ sd_pc[s] = "grace"
    /\ ~processes[sd_i[s]].running
    /\ ShutdownFrom(s, processes, sd_i[s] + 1)
    /\ UNCHANGED <<scripts, shutdown_signal, restart_counts, pc, proc, returncode,
                   mem_percent, alerts, exits, excs, hmvars, bkvars, monvars>>

\* GraceExpire without the proc.kill()
GraceExpire_no_kill(s) ==
    /\ sd_pc[s] = "grace"
    /\ processes[sd_i[s]].running
    /\ ShutdownFrom(s, processes, sd_i[s] + 1)
    /\ UNCHANGED <<scripts, shutdown_signal, restart_counts, pc, proc, returncode,
                   mem_percent, alerts, exits, excs, hmvars, bkvars, monvars>>

\* the 5 s ran out and wait_for raised TimeoutError: proc.kill()
GraceExpire(s) ==
    /\ sd_pc[s] = "grace"
    /\ processes[sd_i[s]].running
    /\ ShutdownFrom(s, [processes EXCEPT ![sd_i[s]].killed = TRUE], sd_i[s] + 1)
    /\ UNCHANGED <<scripts, shutdown_signal, restart_counts, pc, proc, returncode,
                   mem_percent, alerts, exits, excs, hmvars, bkvars, monvars>>

----------------------------------------------------------------------------
(* monitor() when a task raises, and the end of main() *)

\* script_path.exists() raises (an OSError other than "not found", which
\* Path.exists does not swallow): the exception leaves run_script, and gather,
\* when monitor() still awaits it, raises it in monitor(), whose except clause
\* calls send_alert
RunScriptRaise(w) ==
    /\ pc[w] = "delay"
    /\ pc' = [pc EXCEPT ![w] = "raised"]
    /\ timer' = [timer EXCEPT ![w] = 0]
    /\ IF mon_pc = "gather"
       THEN /\ mon_pc' = "fatal_alert"
            /\ fatal_alerts' = fatal_alerts + 1
       ELSE UNCHANGED <<mon_pc, fatal_alerts>>
    /\ UNCHANGED <<scripts, processes, shutdown_signal, restart_counts, proc, returncode,
                   mem_percent, sd_pc, sd_i, alerts, exits, excs, exit_status, navars, loop_time,
                   stvars, ibvars, hmvars, bkvars>>

\* send_alert("Fatal monitor crash") returned: the finally clause runs shutdown()
FatalAlertReturn ==
    /\ mon_pc = "fatal_alert"
    /\ sd_pc["finally"] = "idle"
    /\ ShutdownStart("finally")
    /\ mon_pc' = "shutdown"
    /\ UNCHANGED <<fatal_alerts, exit_status, navars, loop_time, stvars, ibvars>>

\* the shutdown() of the finally clause returned: monitor() returns, main()
\* returns, asyncio.run cancels the tasks that are left and returns, and the
\* interpreter exits at the end of the script
MonitorReturn ==
    /\ mon_pc = "shutdown"
    /\ sd_pc["finally"] = "done"
    /\ mon_pc' = "exited"
    /\ exit_status' = 0
    /\ pc' = [t \in DOMAIN pc |-> IF pc[t] \in {"done", "raised"} THEN pc[t] ELSE "cancelled"]
    /\ sd_pc' = [s \in ShutdownCalls |-> IF sd_pc[s] = "grace" THEN "cancelled" ELSE sd_pc[s]]
    /\ timer' = [t \in DOMAIN timer |-> 0]
    /\ UNCHANGED <<scripts, processes, shutdown_signal, restart_counts, proc, returncode,
                   mem_percent, sd_i, alerts, exits, excs, fatal_alerts, navars, loop_time, stvars,
                   ibvars, hmvars, bkvars>>

----------------------------------------------------------------------------
(* HealthMonitor: run_health_check and send_health_alert *)

\* the alert types, in the order run_health_check raises them
AlertTypes == <<"system", "files", "corruption">>

\* the seconds the clock is seen to advance by
TickSteps == {900, 901}

\* dict.get(key, default)
Get(dict, key, default) == IF key \in DOMAIN dict THEN dict[key] ELSE default

\* dict[key] = value
Put(dict, key, value) ==
    [k \in DOMAIN dict \cup {key} |-> IF k = key THEN value ELSE dict[k]]

HealthInit ==
    /\ clock = Epoch
    /\ last_alert_time = <<>>
    /\ hm_pc = "idle"
    /\ hm_todo = <<>>
    /\ current_time = 0
    /\ hm_sent = [c \in Range(AlertTypes) |-> <<>>]
    /\ hm_dropped = [c \in Range(AlertTypes) |-> 0]
    /\ hm_cycle = 0
    /\ hm_failed = FALSE
    /\ hm_after_failed = FALSE

Tick(d) ==
    /\ clock + d <= Epoch + MaxElapsed
    /\ clock' = clock + d
    /\ UNCHANGED <<last_alert_time, hm_pc, hm_todo, current_time, hm_sent, hm_dropped,
                   hcvars, supvars, bkvars, monvars>>

\* the alert types among `issues`, in the order of AlertTypes
InOrder(issues) == SelectSeq(AlertTypes, LAMBDA c : c \in issues)

\* run_health_monitor's sleep is over and its while test passes:
\* run_health_check up to its alerts; the checks find `issues`
RunHealthCheck(issues) ==
    /\ hm_pc = "idle"
    /\ ~shutdown_signal
    /\ hm_todo' = InOrder(issues)
    /\ hm_pc' = "check"
    /\ hm_cycle' = 0
    /\ hm_failed' = FALSE
    /\ hm_after_failed' = hm_failed
    /\ UNCHANGED <<clock, last_alert_time, current_time, hm_sent, hm_dropped, supvars, bkvars,
                   monvars>>

\* run_health_check when a check or the writing of the health file raises: the
\* except clause calls send_alert
RunHealthCheckRaise ==
    /\ hm_pc = "idle"
    /\ ~shutdown_signal
    /\ hm_pc' = "error_alert"
    /\ hm_cycle' = 1
    /\ hm_failed' = TRUE
    /\ hm_after_failed' = hm_failed
    /\ UNCHANGED <<clock, last_alert_time, hm_todo, current_time, hm_sent, hm_dropped, supvars,
                   bkvars, monvars>>

\* ErrorAlertReturn raising the exception again, out of run_health_check
ErrorAlertReturn_reraise ==
    /\ hm_pc = "error_alert"
    /\ hm_pc' = "raised"
    /\ UNCHANGED <<clock, last_alert_time, hm_todo, current_time, hm_sent, hm_dropped, hcvars,
                   supvars, bkvars, monvars>>

\* send_alert("Health monitor error") returned: run_health_check returns, and
\* run_health_monitor goes to its asyncio.sleep(300)
ErrorAlertReturn ==
    /\ hm_pc = "error_alert"
    /\ hm_pc' = "idle"
    /\ UNCHANGED <<clock, last_alert_time, hm_todo, current_time, hm_sent, hm_dropped, hcvars,
                   supvars, bkvars, monvars>>

\* the cooldown test of send_health_alert
cooled(now, last_alert) == now - last_alert > alert_cooldown

\* send_health_alert for the next alert type, up to its await of send_alert
SendHealthAlert ==
    /\ hm_pc = "check"
    /\ hm_todo # <<>>
    /\ LET alert_type == Head(hm_todo)
           last_alert == Get(last_alert_time, alert_type, 0)
       IN  IF cooled(clock, last_alert)
           THEN /\ current_time' = clock
                /\ hm_sent' = [hm_sent EXCEPT ![alert_type] = Append(@, clock)]
                /\ hm_pc' = "sending"
                /\ hm_cycle' = hm_cycle + 1
                /\ UNCHANGED <<hm_todo, hm_dropped>>
           ELSE /\ hm_todo' = Tail(hm_todo)
                /\ hm_dropped' = [hm_dropped EXCEPT ![alert_type] = clock]
                /\ UNCHANGED <<current_time, hm_sent, hm_pc, hm_cycle>>
    /\ UNCHANGED <<clock, last_alert_time, hm_failed, hm_after_failed, supvars, bkvars, monvars>>

\* AlertReturn without the update of last_alert_time
AlertReturn_no_update ==
    /\ hm_pc = "sending"
    /\ hm_todo' = Tail(hm_todo)
    /\ hm_pc' = "check"
    /\ UNCHANGED <<clock, last_alert_time, current_time, hm_sent, hm_dropped, hcvars, supvars,
                   bkvars, monvars>>

\* AlertReturn with one timestamp for all the alert types
AlertReturn_all_types ==
    /\ hm_pc = "sending"
    /\ last_alert_time' = [c \in Range(AlertTypes) |-> current_time]
    /\ hm_todo' = Tail(hm_todo)
    /\ hm_pc' = "check"
    /\ UNCHANGED <<clock, current_time, hm_sent, hm_dropped, hcvars, supvars, bkvars, monvars>>

\* send_alert returned: last_alert_time[alert_type] = current_time
AlertReturn ==
    /\ hm_pc = "sending"
    /\ last_alert_time' = Put(last_alert_time, Head(hm_todo), current_time)
    /\ hm_todo' = Tail(hm_todo)
    /\ hm_pc' = "check"
    /\ UNCHANGED <<clock, current_time, hm_sent, hm_dropped, hcvars, supvars, bkvars, monvars>>

\* run_health_check returns
HealthCheckReturn ==
    /\ hm_pc = "check"
    /\ hm_todo = <<>>
    /\ hm_pc' = "idle"
    /\ UNCHANGED <<clock, last_alert_time, hm_todo, current_time, hm_sent, hm_dropped,
                   hcvars, supvars, bkvars, monvars>>

----------------------------------------------------------------------------
(* BackupManager: create_backup and cleanup_old_backups *)

\* strftime("%Y%m%d_%H%M%S"): the digits of the time, zero-padded to a fixed
\* width (two digits stand for the fourteen)
Format(ts) == <<ts \div 10, ts % 10>>

RECURSIVE Value(_)
\* the time a folder name stands for
Value(name) ==
    IF name = <<>> THEN 0
    ELSE 10 * Value(SubSeq(name, 1, Len(name) - 1)) + name[Len(name)]

RECURSIVE Before(_, _)
\* a < b as sorted() orders two folder names
Before(a, b) ==
    IF a = <<>> THEN b # <<>>
    ELSE IF b = <<>> THEN FALSE
    ELSE IF a[1] # b[1] THEN a[1] < b[1]
    ELSE Before(Tail(a), Tail(b))

\* the folder backups.pop(0) would take, were the list sorted the other way
Oldest_reversed(dirs) == CHOOSE d \in dirs : \A e \in dirs \ {d} : Before(e, d)

\* sorted(...)[0], the folder backups.pop(0) takes
Oldest(dirs) == CHOOSE d \in dirs : \A e \in dirs \ {d} : Before(d, e)

RECURSIVE Pruned(_, _)
\* the names left once the while loop has removed n folders
Pruned(dirs, n) ==
    IF n = 0 THEN dirs ELSE Pruned(dirs \ {Oldest(dirs)}, n - 1)

RECURSIVE RemovedSeq(_, _)
\* the n folders the while loop removes, in order
RemovedSeq(dirs, n) ==
    IF n = 0 THEN <<>>
    ELSE <<Oldest(dirs)>> \o RemovedSeq(dirs \ {Oldest(dirs)}, n - 1)

\* the removals the while loop of cleanup_old_backups is to make
Excess(dirs) ==
    IF Cardinality(dirs) > max_backups THEN Cardinality(dirs) - max_backups ELSE 0

\* the items create_backup copies, in its order: one of the critical files,
\* then the sessions directory
ItemOrder == <<"file_index.json", "sessions/">>
Items == Range(ItemOrder)

\* the contents a file or a directory may have
Contents == {1, 2}

\* what may be at a path: nothing, a file, a directory
Absent == [kind |-> "absent", content |-> 0]
PathStates == {Absent} \cup {[kind |-> k, content |-> c] : k \in {"file", "dir"}, c \in Contents}

\* what create_backup takes the item for
KindOf(i) == IF i = "sessions/" THEN "dir" ELSE "file"

\* the working tree an installation starts with
Tree0 == [i \in Items |-> [kind |-> KindOf(i), content |-> 1]]

\* copy2 copies a file and copytree a directory: a directory at the path of a
\* file, or a file at the path of sessions, makes the copy raise
CanCopy(tr) == \A i \in Items : tr[i].kind \in {"absent", KindOf(i)}

\* the copies create_backup makes, of the items that exist; backed_up (the
\* "files" of backup_info.json) lists them
Snapshot(tr) == [i \in {j \in Items : tr[j].kind # "absent"} |-> tr[i]]

\* the folder of a create_backup that raised: what it holds is never read
Partial == [i \in {} |-> Absent]

\* BackupManager.__init__, with the folders `old` left by an earlier run
BackupStart(old) ==
    /\ bk_clock = 1
    /\ backup_dir = [n \in {Format(ts) : ts \in old} |-> TRUE]
    /\ bk_alert = "none"
    /\ bk_content = [n \in {Format(ts) : ts \in old} |-> Snapshot(Tree0)]
    /\ tree = Tree0
    /\ rs_name = <<>>
    /\ rs_result = "none"
    /\ rs_alert = "none"
    /\ rs_turn = 0
    /\ bk_created = old
    /\ bk_slept = TRUE
    /\ bk_last = "none"
    /\ bk_removed = <<>>
    /\ bk_fails = 0

BackupInit == \E old \in SUBSET {0} : BackupStart(old)

\* the seconds gone by in which no backup was made
Skipped == {ts \in 1..bk_clock - 1 : ts \notin bk_created}

\* a second goes by (the interval sleep of the loop that calls create_backup is
\* hours long)
BackupTick ==
    /\ bk_clock < MaxTs
    /\ bk_slept => Cardinality(Skipped) < MaxSkip
    /\ bk_clock' = bk_clock + 1
    /\ bk_slept' = TRUE
    /\ UNCHANGED <<backup_dir, bk_last, bk_created, bk_removed, bk_fails, bk_alert,
                   bk_content, tree, rsvars, supvars, hmvars, monvars>>

\* create_backup: mkdir, the copies, the manifest, then cleanup_old_backups.
\* The except clause of create_backup sends the "Backup failed" alert; the one
\* of cleanup_old_backups prints a warning and sends none.
\* copied: the copies and the manifest are written without an error (the tree
\* must be one that can be copied).
\* removals: the rmtree calls of the cleanup that succeed (the next one raises,
\* unless they are all the cleanup is to make).
CreateBackup(copied, removals) ==
    /\ bk_slept
    /\ bk_slept' = FALSE
    /\ bk_created' = bk_created \cup {bk_clock}
    /\ copied => CanCopy(tree)
    /\ LET folder == Format(bk_clock)
           made == [n \in DOMAIN backup_dir \cup {folder} |->
                       IF n = folder THEN FALSE ELSE backup_dir[n]]
           written == [made EXCEPT ![folder] = TRUE]
           todo == Excess(DOMAIN written)
           held == [n \in DOMAIN made |->
                       IF n = folder THEN (IF copied THEN Snapshot(tree) ELSE Partial)
                       ELSE bk_content[n]]
       IN  IF ~copied
           THEN /\ CanCopy(tree) => bk_fails < MaxFail
                /\ removals = 0
                /\ backup_dir' = made
                /\ bk_content' = held
                /\ bk_last' = "backup_failed"
                /\ bk_alert' = "failed"
                /\ bk_removed' = <<>>
                /\ bk_fails' = IF CanCopy(tree) THEN bk_fails + 1 ELSE bk_fails
           ELSE /\ removals <= todo
                /\ removals < todo => bk_fails < MaxFail
                /\ backup_dir' = [n \in Pruned(DOMAIN written, removals) |-> written[n]]
                /\ bk_content' = [n \in Pruned(DOMAIN written, removals) |-> held[n]]
                /\ bk_removed' = RemovedSeq(DOMAIN written, removals)
                /\ bk_last' = IF removals < todo THEN "cleanup_failed" ELSE "ok"
                /\ bk_alert' = "none"
                /\ bk_fails' = IF removals < todo THEN bk_fails + 1 ELSE bk_fails
    /\ UNCHANGED <<bk_clock, tree, rsvars, supvars, hmvars, monvars>>

----------------------------------------------------------------------------
(* BackupManager.restore_from_backup, and the working tree *)

\* somebody edits the working tree: a backed-up item is changed, deleted, or
\* replaced by something else
EditTree(i, s) ==
    /\ s # tree[i]
    /\ tree' = [tree EXCEPT ![i] = s]
    /\ UNCHANGED <<bk_clock, backup_dir, bk_slept, bk_last, bk_created, bk_removed, bk_fails,
                   bk_alert, bk_content, rsvars, supvars, hmvars, monvars>>

\* what is at the path of an item once the loop body of restore_from_backup
\* has run for it. A stored directory: rmtree of what is there, then copytree.
\* A stored file: copy2, which writes into a directory that is at the path
\* and leaves that directory in place
RestoreItem(at, stored) ==
    IF stored.kind = "dir" THEN stored
    ELSE IF at.kind = "dir" THEN at
    ELSE stored

\* rmtree raises when what is at the path of a stored directory is a file
RestoreRaises(at, stored) == stored.kind = "dir" /\ at.kind = "file"

RECURSIVE RestoreFiles(_, _, _, _)
\* the for loop over backup_info["files"]: `budget` copies succeed before one
\* raises; the tree it leaves and whether it came to its end
RestoreFiles(tr, todo, held, budget) ==
    IF todo = <<>> THEN [tree |-> tr, ok |-> TRUE]
    ELSE IF budget = 0 \/ RestoreRaises(tr[Head(todo)], held[Head(todo)])
         THEN [tree |-> tr, ok |-> FALSE]
    ELSE RestoreFiles([tr EXCEPT ![Head(todo)] = RestoreItem(@, held[Head(todo)])],
                      Tail(todo), held, budget - 1)

\* backup_info["files"] of a folder
Listed(held) == SelectSeq(ItemOrder, LAMBDA i : i \in DOMAIN held)

\* the names restore_from_backup is called with: the folder of the first
\* second, and one that is never made
RestoreNames == {Format(1), Format(0)}

\* RestoreFromBackup with the missing folder handled inside the try block
RestoreFromBackup_caught(backup_name, budget) ==
    /\ rs_name' = backup_name
    /\ rs_turn' = 1 - rs_turn
    /\ IF backup_name \notin DOMAIN backup_dir \/ ~backup_dir[backup_name]
       THEN /\ rs_result' = "False"
            /\ rs_alert' = "failed"
            /\ tree' = tree
       ELSE LET r == RestoreFiles(tree, Listed(bk_content[backup_name]),
                                  bk_content[backup_name], budget)
            IN  /\ tree' = r.tree
                /\ rs_result' = IF r.ok THEN "True" ELSE "False"
                /\ rs_alert' = IF r.ok THEN "success" ELSE "failed"
    /\ UNCHANGED <<bk_clock, backup_dir, bk_slept, bk_last, bk_created, bk_removed, bk_fails,
                   bk_alert, bk_content, supvars, hmvars, monvars>>

\* restore_from_backup(backup_name), its send_alert included
RestoreFromBackup(backup_name, budget) ==
    /\ rs_name' = backup_name
    /\ rs_turn' = 1 - rs_turn
    /\ IF backup_name \notin DOMAIN backup_dir
       THEN /\ rs_result' = "FileNotFoundError"
            /\ rs_alert' = "none"
            /\ tree' = tree
       ELSE IF ~backup_dir[backup_name]
       THEN /\ rs_result' = "False"
            /\ rs_alert' = "failed"
            /\ tree' = tree
       ELSE LET r == RestoreFiles(tree, Listed(bk_content[backup_name]),
                                  bk_content[backup_name], budget)
            IN  /\ tree' = r.tree
                /\ rs_result' = IF r.ok THEN "True" ELSE "False"
                /\ rs_alert' = IF r.ok THEN "success" ELSE "failed"
    /\ UNCHANGED <<bk_clock, backup_dir, bk_slept, bk_last, bk_created, bk_removed, bk_fails,
                   bk_alert, bk_content, supvars, hmvars, monvars>>

----------------------------------------------------------------------------
(* notifier.send_alert and the code that awaits it *)

\* send_alert without its try block: an exception of the transport leaves it
send_alert_unguarded ==
    IF ~BOT_TOKEN \/ ~CHAT_ID THEN [ends |-> "returned", logged |-> "warning"]
    ELSE IF resp = "exception" THEN [ends |-> "raised", logged |-> "none"]
    ELSE IF resp # "200" THEN [ends |-> "returned", logged |-> "error"]
    ELSE [ends |-> "returned", logged |-> "none"]

\* send_alert(message): how the call ends and what it writes to the log. The
\* early return when a variable is missing, then the post inside try, whose
\* except clause logs the exception
send_alert ==
    IF ~BOT_TOKEN \/ ~CHAT_ID THEN [ends |-> "returned", logged |-> "warning"]
    ELSE IF resp = "exception" THEN [ends |-> "returned", logged |-> "error"]
    ELSE IF resp # "200" THEN [ends |-> "returned", logged |-> "error"]
    ELSE [ends |-> "returned", logged |-> "none"]

\* where run_script awaits send_alert
AlertAwaits == {"nf_alert", "crash_alert", "max_alert", "exc_alert"}

\* an await of send_alert in run_script is over. An exception raised at an
\* await inside the try block of the while loop goes to its except clause,
\* which calls send_alert again; one raised elsewhere leaves run_script
WorkerAlertDone(w) ==
    IF send_alert.ends = "returned"
    THEN NotFoundReturn(w) \/ CrashAlertReturn(w) \/ MaxAlertReturn(w) \/ ExcAlertReturn(w)
    ELSE /\ pc[w] \in AlertAwaits
         /\ IF pc[w] \in {"crash_alert", "max_alert"}
            THEN /\ pc' = [pc EXCEPT ![w] = "exc_alert"]
                 /\ alerts' = [alerts EXCEPT ![w].error = @ + 1]
            ELSE /\ pc' = [pc EXCEPT ![w] = "raised"]
                 /\ UNCHANGED alerts
         /\ UNCHANGED <<scripts, processes, shutdown_signal, restart_counts, proc, returncode,
                        timer, mem_percent, sd_pc, sd_i, exits, excs, hmvars, bkvars, monvars>>

\* an await of send_alert in run_health_check is over. send_health_alert is
\* called inside the try block, whose except clause calls send_alert again
HealthAlertDone ==
    IF send_alert.ends = "returned"
    THEN AlertReturn \/ ErrorAlertReturn
    ELSE /\ hm_pc \in {"sending", "error_alert"}
         /\ hm_pc' = IF hm_pc = "sending" THEN "error_alert" ELSE "raised"
         /\ hm_cycle' = IF hm_pc = "sending" THEN hm_cycle + 1 ELSE hm_cycle
         /\ UNCHANGED <<clock, last_alert_time, hm_todo, current_time, hm_sent, hm_dropped,
                        hm_failed, hm_after_failed, supvars, bkvars, monvars>>

\* create_backup, whose except clause awaits send_alert before it returns False
BackupAlertDone(copied) ==
    IF copied \/ send_alert.ends = "returned"
    THEN CreateBackup(copied, 0)
    ELSE /\ bk_slept
         /\ bk_slept' = FALSE
         /\ bk_last' = "raised"
         /\ bk_alert' = "failed"
         /\ UNCHANGED <<bk_clock, backup_dir, bk_created, bk_removed, bk_fails, bk_content,
                        tree, rsvars, supvars, hmvars, monvars>>

----------------------------------------------------------------------------
(* monitor() from its await of gather on, with the time of the event loop *)

\* the list main() constructs the supervisor with
MainScripts == <<"index_bot.py", "file_forwarder_sc.py", "forward_clean_bot.py">>

\* monitor() has created the tasks and awaits gather: none of them has run yet
StartupInit ==
    /\ scripts = MainScripts
    /\ processes = <<>>
    /\ shutdown_signal = FALSE
    /\ restart_counts = [s \in Range(scripts) |-> 0]
    /\ pc = [t \in Range(scripts) \cup Loops |-> "created"]
    /\ proc = [s \in Range(scripts) |-> 0]
    /\ returncode = [s \in Range(scripts) |-> None]
    /\ timer = [t \in Range(scripts) \cup Loops \cup ShutdownCalls |-> 0]
    /\ mem_percent = MemThreshold
    /\ sd_pc = [s \in ShutdownCalls |-> "idle"]
    /\ sd_i = [s \in ShutdownCalls |-> 0]
    /\ alerts = [s \in Range(scripts) |-> [notfound |-> 0, crashed |-> 0, maxed |-> 0, error |-> 0]]
    /\ exits = [s \in Range(scripts) |-> [nonzero |-> 0, streak |-> 0]]
    /\ excs = [s \in Range(scripts) |-> 0]

\* the position of a script in the list
IndexOf(w) == CHOOSE i \in 1..Len(scripts) : scripts[i] = w

\* TaskStart with the two loops held back until every worker is past its
\* startup delay
TaskStart_after_workers(t) ==
    /\ pc[t] = "created"
    /\ t \in Loops => \A w \in Workers : pc[w] \notin {"created", "delay"}
    /\ IF t \in Loops
       THEN Cycle(t)
       ELSE /\ pc' = [pc EXCEPT ![t] = "delay"]
            /\ timer' = [timer EXCEPT ![t] = startup_delays(IndexOf(t))]
    /\ UNCHANGED <<scripts, processes, shutdown_signal, restart_counts, proc,
                   returncode, mem_percent, sd_pc, sd_i, alerts, exits, excs, hmvars, bkvars, monvars>>

\* a task runs for the first time: run_script to its asyncio.sleep(delay),
\* run_health_monitor and run_backup_manager through their first cycle
TaskStart(t) ==
    /\ pc[t] = "created"
    /\ IF t \in Loops
       THEN Cycle(t)
       ELSE /\ pc' = [pc EXCEPT ![t] = "delay"]
            /\ timer' = [timer EXCEPT ![t] = startup_delays(IndexOf(t))]
    /\ UNCHANGED <<scripts, processes, shutdown_signal, restart_counts, proc,
                   returncode, mem_percent, sd_pc, sd_i, alerts, exits, excs, hmvars, bkvars, monvars>>

\* the seconds the event loop is seen to wait for
AdvanceSteps == {5, 10}

\* the event loop waits for its timers: it does so when no task is ready to
\* run, and the tasks gather has just been given are
Advance(d) ==
    /\ \A t \in Tasks : pc[t] # "created"
    /\ loop_time + d <= MaxNow
    /\ loop_time' = loop_time + d
    /\ UNCHANGED <<supvars, hmvars, bkvars, mon_pc, fatal_alerts, exit_status, navars, stvars,
                   ibvars>>

\* asyncio.sleep(delay) returns when the delay has gone by since the task
\* began, which it did at time 0
DelayOver(w) ==
    /\ loop_time >= timer[w]
    /\ RunScriptStart(w)


----------------------------------------------------------------------------
(* read_stream, the two reader tasks of a process *)

\* the reader tasks of process i are there: run_script awaits proc.wait(),
\* and cancels them when it returns
Live(i) == \E w \in Workers : proc[w] = i /\ pc[w] = "wait"

\* process i writes a line to a stream: the n-th line is the number n, and the
\* transport feeds it to the StreamReader
Write(i, s) ==
    /\ i \in 1..Len(processes) /\ i <= MaxRuns
    /\ processes[i].running
    /\ wrote[i][s] < MaxLines
    /\ wrote' = [wrote EXCEPT ![i][s] = @ + 1]
    /\ unread' = [unread EXCEPT ![i][s] = Append(@, wrote[i][s] + 1)]
    /\ UNCHANGED <<logged, rd_pc, supvars, hmvars, bkvars, mon_pc, fatal_alerts, exit_status,
                   navars, loop_time, ibvars>>

\* stream.readline() returned a line: logger.info, then the while test of
\* read_stream, which ends it when the shutdown signal is set
ReadLine(i, s) ==
    /\ Live(i) /\ i <= MaxRuns
    /\ rd_pc[i][s] = "readline"
    /\ unread[i][s] # <<>>
    /\ logged' = [logged EXCEPT ![i][s] = Append(@, Head(unread[i][s]))]
    /\ unread' = [unread EXCEPT ![i][s] = Tail(@)]
    /\ rd_pc' = [rd_pc EXCEPT ![i][s] = IF shutdown_signal THEN "done" ELSE "readline"]
    /\ UNCHANGED <<wrote, supvars, hmvars, bkvars, mon_pc, fatal_alerts, exit_status,
                   navars, loop_time, ibvars>>

\* stream.readline() returned b"" at the end of the stream: break
ReadEof(i, s) ==
    /\ Live(i) /\ i <= MaxRuns
    /\ rd_pc[i][s] = "readline"
    /\ unread[i][s] = <<>>
    /\ ~processes[i].running
    /\ rd_pc' = [rd_pc EXCEPT ![i][s] = "done"]
    /\ UNCHANGED <<wrote, unread, logged, supvars, hmvars, bkvars, mon_pc, fatal_alerts,
                   exit_status, navars, loop_time, ibvars>>

\* proc.wait() returns when the process has exited and its pipes are at their
\* end: the event loop has by then run a reader that was waiting for the data
\* the pipes delivered
StreamsWaitReturn(w) ==
    /\ pc[w] = "wait"
    /\ \A s \in Streams : rd_pc[proc[w]][s] = "readline" => unread[proc[w]][s] = <<>>
    /\ WaitReturn(w)

----------------------------------------------------------------------------
(* The indexer bot: on_new_media and check_deleted_files *)

\* index_bot is one asyncio program too: the handler and the cleanup loop run
\* on one event loop, and on_new_media has no await in it. An entry is
\* modelled by its message_id: the other fields are functions of the message.
\* Nothing in the try block of check_deleted_files lets an Exception reach its
\* last except clause (128-130): load_index, save_index and the two inner try
\* statements catch their own.

\* everything but the indexer bot's state
sup_side == <<supvars, hmvars, bkvars, mon_pc, fatal_alerts, exit_status, navars, loop_time,
              stvars>>

\* the most updates of one message given to the handler (Telegram may repeat one)
MaxDeliveries == 2

\* the most filesystem errors of load_index and save_index
MaxIoFaults == 1

\* the entry of a message that carries one of the media types, None otherwise
message_to_entry(message) ==
    IF message.media THEN message.id ELSE None

\* the list in file_index.json; [] when there is no file or reading it fails
load_index(ok) ==
    IF ok THEN INDEX_FILE ELSE <<>>

\* what file_index.json holds after save_index(index): the list when the
\* write and the rename went through (True), what it held before (False)
save_index(index, ok) ==
    IF ok THEN index ELSE INDEX_FILE

\* the number of calls that failed, of calls that went as the flags say
Failed(flags) == Cardinality({i \in 1..Len(flags) : ~flags[i]})

\* a message is posted to the channel
Post(m_media) ==
    /\ Len(media) < MaxMessages
    /\ media' = Append(media, m_media)
    /\ channel' = channel \cup {Len(media) + 1}
    /\ UNCHANGED <<INDEX_FILE, delivered, cd_pc, cd_index, cd_i, to_remove, ib_faults,
                   indexed, found_deleted, sup_side>>

\* a message is deleted from the channel
Delete(m) ==
    /\ m \in channel
    /\ channel' = channel \ {m}
    /\ UNCHANGED <<INDEX_FILE, media, delivered, cd_pc, cd_index, cd_i, to_remove, ib_faults,
                   indexed, found_deleted, sup_side>>

\* the handler, given the update of message m; r and w say how its load_index
\* and its save_index go
on_new_media(m, r, w) ==
    /\ m \in 1..Len(media)
    /\ delivered[m] < MaxDeliveries
    /\ delivered' = [delivered EXCEPT ![m] = @ + 1]
    /\ LET message == [id |-> m, media |-> media[m]]
           entry == message_to_entry(message)
           index == load_index(r)
       IN  IF entry = None
           THEN /\ r /\ w
                /\ UNCHANGED <<INDEX_FILE, ib_faults, indexed>>
           ELSE IF \E i \in 1..Len(index) : index[i] = entry
           THEN /\ w
                /\ ib_faults + Failed(<<r>>) <= MaxIoFaults
                /\ ib_faults' = ib_faults + Failed(<<r>>)
                /\ UNCHANGED <<INDEX_FILE, indexed>>
           ELSE /\ ib_faults + Failed(<<r, w>>) <= MaxIoFaults
                /\ ib_faults' = ib_faults + Failed(<<r, w>>)
                /\ INDEX_FILE' = save_index(Append(index, entry), w)
                /\ indexed' = IF w THEN indexed \cup {entry} ELSE indexed
    /\ UNCHANGED <<media, channel, cd_pc, cd_index, cd_i, to_remove, found_deleted, sup_side>>

\* the 300 s sleep of check_deleted_files is over: it loads the index, sleeps
\* again when the list is empty, and awaits get_chat otherwise
CdWake(r) ==
    /\ cd_pc = "sleep"
    /\ ib_faults + Failed(<<r>>) <= MaxIoFaults
    /\ ib_faults' = ib_faults + Failed(<<r>>)
    /\ LET index == load_index(r)
       IN  IF index = <<>>
           THEN UNCHANGED <<cd_pc, cd_index>>
           ELSE /\ cd_index' = index
                /\ cd_pc' = "get_chat"
    /\ UNCHANGED <<INDEX_FILE, media, channel, delivered, cd_i, to_remove, indexed,
                   found_deleted, sup_side>>

\* get_chat returned, or raised: the for loop begins at the first entry, or
\* the pass is given up
CdGetChat(ok) ==
    /\ cd_pc = "get_chat"
    /\ IF ok
       THEN /\ to_remove' = <<>>
            /\ cd_i' = 1
            /\ cd_pc' = "get_messages"
            /\ UNCHANGED cd_index
       ELSE /\ cd_pc' = "sleep"
            /\ cd_index' = <<>>
            /\ UNCHANGED <<to_remove, cd_i>>
    /\ UNCHANGED <<INDEX_FILE, media, channel, delivered, ib_faults, indexed, found_deleted,
                   sup_side>>

\* what get_messages can do for a message id, as the code tells its outcomes
\* apart: return, raise MessageIdInvalid, raise an exception whose text has
\* PEER_ID_INVALID or MESSAGE_ID_INVALID in it, raise any other exception
GetMessagesOutcomes(m) ==
    IF m \in channel
    THEN {"message", "PEER_ID_INVALID", "error"}
    ELSE {"message", "MessageIdInvalid", "PEER_ID_INVALID", "MESSAGE_ID_INVALID", "error"}

\* the for loop goes to its next entry with `rem` as to_remove; after the last
\* entry the pass ends: with something to remove it saves its list without
\* the entries of to_remove (w: how save_index goes), and it sleeps again.
\* The locals are set back: the next pass assigns them before it reads them.
NextEntry(rem, w) ==
    IF cd_i < Len(cd_index)
    THEN /\ w
         /\ cd_i' = cd_i + 1
         /\ to_remove' = rem
         /\ cd_pc' = "get_messages"
         /\ UNCHANGED <<INDEX_FILE, cd_index, ib_faults>>
    ELSE /\ IF rem # <<>>
            THEN /\ ib_faults + Failed(<<w>>) <= MaxIoFaults
                 /\ ib_faults' = ib_faults + Failed(<<w>>)
                 /\ INDEX_FILE' = save_index(SelectSeq(cd_index, LAMBDA e : e \notin Range(rem)), w)
            ELSE /\ w
                 /\ UNCHANGED <<INDEX_FILE, ib_faults>>
         /\ cd_pc' = "sleep"
         /\ cd_index' = <<>>
         /\ cd_i' = 0
         /\ to_remove' = <<>>

\* get_messages for the entry the loop is at returned or raised
CdGetMessages(outcome, w) ==
    /\ cd_pc = "get_messages"
    /\ LET entry == cd_index[cd_i]
       IN  /\ outcome \in GetMessagesOutcomes(entry)
           /\ CASE outcome = "MessageIdInvalid" ->
                     /\ w
                     /\ to_remove' = Append(to_remove, entry)
                     /\ found_deleted' = found_deleted \cup {entry}
                     /\ cd_pc' = "delay"
                     /\ UNCHANGED <<INDEX_FILE, cd_index, cd_i, ib_faults>>
                [] outcome = "PEER_ID_INVALID" ->
                     /\ NextEntry(to_remove, w)
                     /\ UNCHANGED found_deleted
                [] outcome = "MESSAGE_ID_INVALID" ->
                     /\ NextEntry(Append(to_remove, entry), w)
                     /\ found_deleted' = found_deleted \cup {entry}
                [] OTHER ->
                     /\ w
                     /\ cd_pc' = "delay"
                     /\ UNCHANGED <<INDEX_FILE, cd_index, cd_i, to_remove, ib_faults, found_deleted>>
    /\ UNCHANGED <<media, channel, delivered, indexed, sup_side>>

\* the 0.1 s sleep that ends an iteration of the for loop is over
CdDelayOver(w) ==
    /\ cd_pc = "delay"
    /\ NextEntry(to_remove, w)
    /\ UNCHANGED <<media, channel, delivered, indexed, found_deleted, sup_side>>

----------------------------------------------------------------------------
(* The specifications: the supervisor, the health monitor, the backup manager *)

Init == SupInit /\ HealthInit /\ BackupStart({}) /\ MonInit

Next ==
    \/ MemChange
    \/ \E i \in 1..Len(processes) : ProcExit(i)
    \/ \E w \in Workers : RunScriptStart(w)
    \/ \E w \in Workers : NotFoundReturn(w)
    \/ \E w \in Workers : SpawnOk(w)
    \/ \E w \in Workers : SpawnFail(w)
    \/ \E w \in Workers : ExcAlertReturn(w)
    \/ \E w \in Workers : WaitReturn(w)
    \/ \E w \in Workers : CrashAlertReturn(w)
    \/ \E w \in Workers : MaxAlertReturn(w)
    \/ \E w \in Workers : SleepReturn(w)
    \/ \E l \in Loops : LoopWake(l)
    \/ Signal
    \/ MonitorFinally
    \/ \E s \in ShutdownCalls : GraceExit(s)
    \/ \E s \in ShutdownCalls : GraceExpire(s)

Spec == Init /\ [][Next]_vars

\* every script of ScriptLists
AllScripts == UNION {Range(list) : list \in ScriptLists}

\* the next step of run_script(w), whichever it is
WorkerStep(w) ==
    /\ w \in Workers
    /\ \/ RunScriptStart(w)
       \/ NotFoundReturn(w)
       \/ SpawnOk(w)
       \/ SpawnFail(w)
       \/ ExcAlertReturn(w)
       \/ WaitReturn(w)
       \/ CrashAlertReturn(w)
       \/ MaxAlertReturn(w)
       \/ SleepReturn(w)

\* a process that was sent SIGKILL exits
KilledExit == \E i \in 1..Len(processes) : processes[i].killed /\ ProcExit(i)

\* What the event loop and the operating system see to: a task that can run is
\* run (a sleep ends, send_alert and create_subprocess_exec return or raise, a
\* wait on a process that has exited returns), the 5 s of shutdown()'s wait_for
\* run out, and a killed process exits. A process that was sent no signal, or
\* only SIGTERM, may run on for ever.
Fairness ==
    /\ \A w \in AllScripts : WF_vars(WorkerStep(w))
    /\ WF_vars(\E l \in Loops : LoopWake(l))
    /\ WF_vars(\E s \in ShutdownCalls : GraceExit(s) \/ GraceExpire(s))
    /\ WF_vars(KilledExit)

SpecLive == Init /\ [][Next]_vars /\ Fairness

NextHealth ==
    \/ \E d \in TickSteps : Tick(d)
    \/ \E issues \in SUBSET Range(AlertTypes) : RunHealthCheck(issues)
    \/ SendHealthAlert
    \/ AlertReturn
    \/ HealthCheckReturn
    \/ RunHealthCheckRaise
    \/ ErrorAlertReturn

InitHealth == SupStart(<<"index_bot.py">>, 90) /\ HealthInit /\ BackupStart({}) /\ MonInit

NextMonitor ==
    \/ Next
    \/ \E w \in Workers : RunScriptRaise(w)
    \/ FatalAlertReturn
    \/ MonitorReturn

InitMonitor == SupStart(<<"index_bot.py">>, 90) /\ HealthInit /\ BackupStart({}) /\ MonInit

SpecMonitor == InitMonitor /\ [][NextMonitor]_vars

SpecHealth == InitHealth /\ [][NextHealth]_vars

NextBackup ==
    \/ BackupTick
    \/ \E copied \in BOOLEAN, removals \in 0..MaxFail + 1 : CreateBackup(copied, removals)

InitBackup == SupStart(<<"index_bot.py">>, 90) /\ HealthInit /\ BackupInit /\ MonInit

SpecBackup == InitBackup /\ [][NextBackup]_vars

NextRestore ==
    \/ \E copied \in BOOLEAN : CreateBackup(copied, 0)
    \/ \E i \in Items, s \in PathStates : EditTree(i, s)
    \/ \E backup_name \in RestoreNames, budget \in 0..Len(ItemOrder) :
          RestoreFromBackup(backup_name, budget)

InitRestore == SupStart(<<"index_bot.py">>, 90) /\ HealthInit /\ BackupStart({}) /\ MonInit

SpecRestore == InitRestore /\ [][NextRestore]_vars

\* the breaches the health checks of SpecNotify find
NotifyIssues == {{}, {"system"}}

\* one worker, the health loop and a backup cycle, with their awaits of
\* send_alert; the health monitor's clock stands still
NextNotify ==
    \/ \E i \in 1..Len(processes) : ProcExit(i)
    \/ \E w \in Workers : RunScriptStart(w)
    \/ \E w \in Workers : Len(processes) < MaxSpawnsNotify /\ SpawnOk(w)
    \/ \E w \in Workers : excs[w] < MaxExcNotify /\ SpawnFail(w)
    \/ \E w \in Workers : WaitReturn(w)
    \/ \E w \in Workers : SleepReturn(w)
    \/ \E w \in Workers : WorkerAlertDone(w)
    \/ \E issues \in NotifyIssues : RunHealthCheck(issues)
    \/ RunHealthCheckRaise
    \/ SendHealthAlert
    \/ HealthCheckReturn
    \/ HealthAlertDone
    \/ \E copied \in BOOLEAN : BackupAlertDone(copied)

InitNotify ==
    /\ SupStart(<<"index_bot.py">>, 90)
    /\ HealthInit
    /\ BackupStart({})
    /\ MonStart
    /\ \E token, chat \in BOOLEAN, r \in Responses :
          /\ (~token \/ ~chat) => r = "200"
          /\ NotifierStart(token, chat, r)

SpecNotify == InitNotify /\ [][NextNotify]_vars

\* two workers, and the signals that may follow the first
NextSignals ==
    \/ \E i \in 1..Len(processes) : ProcExit(i)
    \/ \E w \in Workers : RunScriptStart(w)
    \/ \E w \in Workers : NotFoundReturn(w)
    \/ \E w \in Workers : SpawnOk(w)
    \/ \E w \in Workers : WaitReturn(w)
    \/ \E w \in Workers : CrashAlertReturn(w)
    \/ \E w \in Workers : SleepReturn(w)
    \/ \E l \in Loops : LoopWake(l)
    \/ Signal
    \/ SignalAgain
    \/ MonitorFinally
    \/ \E s \in ShutdownCalls : GraceExit(s)
    \/ \E s \in ShutdownCalls : GraceExpire(s)

InitSignals ==
    /\ SupStart(<<"index_bot.py", "file_forwarder_sc.py">>, 90)
    /\ HealthInit
    /\ BackupStart({})
    /\ MonInit

SpecSignals == InitSignals /\ [][NextSignals]_vars

\* one worker and the output of its first processes
NextStreams ==
    \/ \E w \in Workers : RunScriptStart(w)
    \/ \E w \in Workers : Len(processes) < MaxRuns /\ SpawnOk(w)
    \/ \E i \in 1..Len(processes), s \in Streams : Write(i, s)
    \/ \E i \in 1..Len(processes) : ProcExit(i)
    \/ \E i \in 1..Len(processes), s \in Streams : ReadLine(i, s)
    \/ \E i \in 1..Len(processes), s \in Streams : ReadEof(i, s)
    \/ \E w \in Workers : StreamsWaitReturn(w)
    \/ \E w \in Workers : CrashAlertReturn(w)
    \/ \E w \in Workers : SleepReturn(w)
    \/ Signal
    \/ \E s \in ShutdownCalls : GraceExit(s)
    \/ \E s \in ShutdownCalls : GraceExpire(s)

InitStreams == SupStart(<<"index_bot.py">>, 90) /\ HealthInit /\ BackupStart({}) /\ MonInit

SpecStreams == InitStreams /\ [][NextStreams]_vars

NextIndex ==
    \/ \E m_media \in BOOLEAN : Post(m_media)
    \/ \E m \in 1..MaxMessages : Delete(m)
    \/ \E m \in 1..MaxMessages, r \in BOOLEAN, w \in BOOLEAN : on_new_media(m, r, w)
    \/ \E r \in BOOLEAN : CdWake(r)
    \/ \E ok \in BOOLEAN : CdGetChat(ok)
    \/ \E outcome \in {"message", "MessageIdInvalid", "PEER_ID_INVALID",
                        "MESSAGE_ID_INVALID", "error"}, w \in BOOLEAN :
           CdGetMessages(outcome, w)
    \/ \E w \in BOOLEAN : CdDelayOver(w)

InitIndex == SupStart(<<"index_bot.py">>, 90) /\ HealthInit /\ BackupStart({}) /\ MonInit

SpecIndex == InitIndex /\ [][NextIndex]_vars

NextStartup ==
    \/ \E t \in Tasks : TaskStart(t)
    \/ \E d \in AdvanceSteps : Advance(d)
    \/ \E w \in Workers : DelayOver(w)
    \/ \E w \in Workers : NotFoundReturn(w)
    \/ \E w \in Workers : SpawnOk(w)
    \/ \E i \in 1..Len(processes) : ProcExit(i)
    \/ \E w \in Workers : WaitReturn(w)
    \/ \E w \in Workers : CrashAlertReturn(w)
    \/ \E w \in Workers : SleepReturn(w)

InitStartup == StartupInit /\ HealthInit /\ BackupStart({}) /\ MonInit

SpecStartup == InitStartup /\ [][NextStartup]_vars

----------------------------------------------------------------------------
(* The restart policy of run_script *)

Retired(w) == restart_counts[w] >= max_restarts

\* C1: restart_count never exceeds max_restarts; a worker whose restart_count
\* has reached max_restarts is at its break (or has returned), keeps its count,
\* and never spawns another process.
C1_RetiredAtMax ==
    [][\A w \in Workers :
        /\ restart_counts'[w] <= max_restarts
        /\ restart_counts'[w] >= max_restarts => pc'[w] \in {"max_alert", "done"}
        /\ restart_counts[w] >= max_restarts =>
              /\ restart_counts'[w] = restart_counts[w]
              /\ proc'[w] = proc[w]
              /\ pc'[w] # "spawning"]_vars

\* a worker that crashed max_restarts times in a row and has returned
C1_Witness ==
    \E w \in Workers : restart_counts[w] = max_restarts /\ pc[w] = "done" /\ proc[w] >= max_restarts

\* C2: when proc.wait() returns with code 0 the count becomes 0 whatever it was;
\* with another code it is left alone until the crash alert returns and then
\* becomes one more; the count changes in no other way.
C2_CountFollowsExit ==
    [][\A w \in Workers :
        /\ (pc[w] = "wait" /\ pc'[w] # "wait") =>
              IF returncode[w] = 0
              THEN restart_counts'[w] = 0
              ELSE restart_counts'[w] = restart_counts[w] /\ pc'[w] = "crash_alert"
        /\ (pc[w] = "crash_alert" /\ pc'[w] # "crash_alert") =>
              restart_counts'[w] = restart_counts[w] + 1
        /\ restart_counts'[w] # restart_counts[w] =>
              \/ pc[w] = "wait" /\ returncode[w] = 0 /\ restart_counts'[w] = 0
              \/ pc[w] = "crash_alert" /\ returncode[w] # 0
                   /\ restart_counts'[w] = restart_counts[w] + 1]_vars

\* a worker whose count was raised by crashes and then reset by an exit with code 0
C2_Witness ==
    \E w \in Workers :
        /\ exits[w].nonzero >= 2
        /\ returncode[w] = 0
        /\ pc[w] = "spawning"
        /\ restart_counts[w] = 0

\* C3 as claimed: a retired worker has seen exactly max_restarts non-zero exits
\* in all, and one "max restarts reached" alert.
C3_Original ==
    \A w \in Workers :
        Retired(w) => exits[w].nonzero = max_restarts /\ alerts[w].maxed = 1

\* C3, amended: a retired worker has just seen max_restarts non-zero exits in a
\* row (at least that many in all) and one "max restarts reached" alert was sent
\* for it; for a worker that is not retired none was sent.
C3_Amended ==
    \A w \in Workers :
        /\ alerts[w].maxed <= 1
        /\ Retired(w) <=> alerts[w].maxed = 1
        /\ Retired(w) => exits[w].streak = max_restarts /\ exits[w].nonzero >= max_restarts

\* a worker retired after more than max_restarts non-zero exits, an exit with
\* code 0 among them
C3_Witness ==
    \E w \in Workers : Retired(w) /\ pc[w] = "done" /\ exits[w].nonzero > max_restarts

\* C4: a worker in its backoff sleep sleeps 3600 s when its process exited with
\* code 1 and 30 s when it exited with any other non-zero code.
C4_BackoffByCode ==
    \A w \in Workers :
        pc[w] = "backoff" =>
            /\ returncode[w] # 0
            /\ ~Retired(w)
            /\ timer[w] = IF returncode[w] = 1 THEN 3600 ELSE 30

\* one worker in the long backoff and another in the short one
C4_Witness ==
    \E w, v \in Workers :
        /\ pc[w] = "backoff" /\ returncode[w] = 1 /\ timer[w] = 3600
        /\ pc[v] = "backoff" /\ returncode[v] = 2 /\ timer[v] = 30

\* C5: run_script calls create_subprocess_exec only on a resource_check that did
\* not read more than 90% (and with the signal unset); it goes to the 10 s sleep
\* only on one that did, spawning nothing; and when it leaves that sleep with the
\* signal unset it spawns in the same step.
C5_ResourceGate ==
    [][\A w \in Workers :
        /\ (pc'[w] = "spawning" /\ pc[w] # "spawning") =>
              /\ ~shutdown_signal
              /\ mem_percent = MemError \/ mem_percent <= 90
        /\ (pc'[w] = "res_sleep" /\ pc[w] # "res_sleep") =>
              /\ mem_percent # MemError /\ mem_percent > 90
              /\ timer'[w] = 10
              /\ processes' = processes
        /\ pc[w] = "res_sleep" =>
              /\ proc'[w] = proc[w]
              /\ pc'[w] \in {"res_sleep", "spawning", "done"}
              /\ pc'[w] = "spawning" => mem_percent = MemError \/ mem_percent <= 90
              /\ pc'[w] = "done" => shutdown_signal]_vars

\* a worker kept from spawning by the gate while the memory has come down again
C5_Witness ==
    \E w \in Workers :
        pc[w] = "res_sleep" /\ timer[w] = 10 /\ mem_percent = 90 /\ proc[w] > 0

\* C8: a shutdown() call returns only when every tracked process has exited or
\* was terminated and killed; it waits for a process only after terminating
\* it, leaves that wait only when the process has exited or by killing it, and
\* kills only a terminated process that is still running after the 5 s.
C8_ShutdownStopsAll ==
    [][\A s \in ShutdownCalls :
        /\ sd_pc'[s] # "idle" => shutdown_signal'
        /\ (sd_pc[s] # "done" /\ sd_pc'[s] = "done") =>
              \A i \in 1..Len(processes') :
                  \/ ~processes'[i].running
                  \/ processes'[i].terminated /\ processes'[i].killed
        /\ (sd_pc'[s] = "grace" /\ (sd_pc[s] # "grace" \/ sd_i'[s] # sd_i[s])) =>
              /\ processes'[sd_i'[s]].terminated
              /\ timer'[s] = 5
        /\ (sd_pc[s] = "grace" /\ (sd_pc'[s] # "grace" \/ sd_i'[s] # sd_i[s])) =>
              \/ ~processes[sd_i[s]].running
              \/ processes'[sd_i[s]].killed
        /\ \A i \in 1..Len(processes) :
              (processes'[i].killed /\ ~processes[i].killed) =>
                  /\ processes[i].running /\ processes[i].terminated
                  /\ \E r \in ShutdownCalls : sd_pc[r] = "grace" /\ sd_i[r] = i]_vars

\* a shutdown() that has returned after one process exited on its terminate and
\* another had to be killed
C8_Witness ==
    \E s \in ShutdownCalls, i, j \in 1..Len(processes) :
        /\ sd_pc[s] = "done"
        /\ processes[i].terminated /\ processes[i].killed
        /\ processes[j].terminated /\ ~processes[j].killed /\ ~processes[j].running

\* C9 as claimed: once the shutdown signal is set no task is left in a sleep
\* (startup delay, resource wait, backoff, the sleep after an exception, the
\* health and backup intervals).
C9_Original ==
    shutdown_signal =>
        \A t \in Tasks : pc[t] \notin {"delay", "res_sleep", "backoff", "exc_sleep", "sleep"}

\* C10 as claimed: when the alert for an exception of create_subprocess_exec
\* has been sent, the restart count is one more and the worker is retired or in
\* the backoff of a crash.
C10_Original ==
    [][\A w \in Workers :
        (pc[w] = "exc_alert" /\ pc'[w] # "exc_alert") =>
            /\ restart_counts'[w] = restart_counts[w] + 1
            /\ \/ pc'[w] = "max_alert"
               \/ timer'[w] \in {30, 3600}]_vars

----------------------------------------------------------------------------
(* The alert cooldown of the health monitor *)

\* C6: the alerts sent for one alert type are at least 1800 s apart; a breach
\* is answered with one alert when none was sent for its type yet or the last
\* one was sent more than 1800 s ago, and with none otherwise.
C6_Cooldown ==
    [][/\ \A c \in Range(AlertTypes) : \A i \in 1..Len(hm_sent'[c]) - 1 :
              hm_sent'[c][i + 1] - hm_sent'[c][i] >= 1800
       /\ (hm_pc = "check" /\ hm_todo # <<>> /\ (hm_pc' = "sending" \/ hm_todo' # hm_todo)) =>
              LET c == Head(hm_todo)
                  sent == hm_sent[c]
              IN  IF sent = <<>> \/ clock - sent[Len(sent)] > 1800
                  THEN hm_sent' = [hm_sent EXCEPT ![c] = Append(sent, clock)]
                       /\ hm_dropped' = hm_dropped
                  ELSE hm_sent' = hm_sent
                       /\ hm_dropped' = [hm_dropped EXCEPT ![c] = clock]]_vars

\* an alert type with a first alert, a breach inside the window that was
\* dropped, and a second alert just after the window
C6_Witness ==
    \E c \in Range(AlertTypes) :
        /\ Len(hm_sent[c]) = 2
        /\ hm_sent[c][2] - hm_sent[c][1] = 1801
        /\ hm_sent[c][1] < hm_dropped[c] /\ hm_dropped[c] < hm_sent[c][2]
        /\ hm_pc = "idle"

----------------------------------------------------------------------------
(* The retention of the backup manager *)

\* the times of the folders under backups/
Kept == {Value(n) : n \in DOMAIN backup_dir}

----------------------------------------------------------------------------
(* Workers that are not found, the resource gate, the workers side by side *)

\* C11: a worker whose script path is missing sends one "not found" alert and
\* no other, returns when the alert has been sent, never spawns a process and
\* keeps its restart count; the step that finds the path missing and the return
\* change nothing of another worker.
C11_NotFound ==
    [][\A w \in Workers :
        /\ (pc[w] = "delay" /\ pc'[w] = "nf_alert") =>
              /\ alerts' = [alerts EXCEPT ![w].notfound = 1]
              /\ alerts[w].notfound = 0
        /\ alerts'[w].notfound # alerts[w].notfound => pc[w] = "delay" /\ pc'[w] = "nf_alert"
        /\ pc[w] = "nf_alert" => pc'[w] \in {"nf_alert", "done"}
        /\ (pc'[w] # pc[w] /\ (pc[w] = "nf_alert" \/ pc'[w] = "nf_alert")) =>
              /\ restart_counts' = restart_counts
              /\ processes' = processes
              /\ proc' = proc
              /\ \A v \in Workers \ {w} : pc'[v] = pc[v] /\ timer'[v] = timer[v]
        /\ alerts'[w].notfound = 1 =>
              /\ pc'[w] \in {"nf_alert", "done"}
              /\ proc'[w] = 0
              /\ restart_counts'[w] = 0
              /\ alerts'[w] = [notfound |-> 1, crashed |-> 0, maxed |-> 0, error |-> 0]]_vars

\* a worker that was not found has returned, and another worker has spawned a
\* process, seen it crash and counted it
C11_Witness ==
    \E w, v \in Workers :
        /\ alerts[w].notfound = 1 /\ pc[w] = "done" /\ proc[w] = 0 /\ ~shutdown_signal
        /\ proc[v] > 0 /\ restart_counts[v] = 1 /\ pc[v] = "backoff"

\* C12: a worker that resource_check refuses goes to a sleep of 10 s with its
\* restart count as it was (0 when the refusal follows an exit with code 0, which
\* has reset it), sends no alert and spawns no process; nothing changes its
\* count, its alerts or its process while it sleeps, and a refusal at the end of
\* the sleep is followed by the same sleep.
C12_RefusalNotCounted ==
    [][\A w \in Workers :
        /\ (pc[w] # "res_sleep" /\ pc'[w] = "res_sleep") =>
              /\ ~resource_check
              /\ restart_counts'[w] = IF pc[w] = "wait" THEN 0 ELSE restart_counts[w]
              /\ alerts' = alerts
              /\ processes' = processes
              /\ proc' = proc
              /\ timer'[w] = 10
        /\ pc[w] = "res_sleep" =>
              /\ restart_counts'[w] = restart_counts[w]
              /\ alerts'[w] = alerts[w]
              /\ proc'[w] = proc[w]
              /\ pc'[w] = "res_sleep" => timer'[w] = 10
              /\ (pc'[w] # "res_sleep" /\ ~shutdown_signal) => resource_check]_vars

\* a worker refused after two crashes: two restarts counted, two alerts sent
C12_Witness ==
    \E w \in Workers :
        /\ pc[w] = "res_sleep"
        /\ restart_counts[w] = 2
        /\ alerts[w] = [notfound |-> 0, crashed |-> 2, maxed |-> 0, error |-> 0]
        /\ proc[w] = 2

----------------------------------------------------------------------------
(* The worker loops after the shutdown signal *)

\* what is left of SpawnCap is enough for every worker to spawn once more
Room == Len(processes) + Cardinality(Workers) <= SpawnCap

\* run_script(w) has returned
Returned(w) == IF w \in Workers THEN pc[w] = "done" ELSE TRUE

\* C13 as claimed: once the shutdown signal is set, every worker's run_script
\* returns in the end, wherever it was.
C13_Original ==
    \A w \in AllScripts :
        (w \in Workers /\ shutdown_signal /\ Room) ~> Returned(w)

\* shutdown() can miss the process of w: w is inside create_subprocess_exec, or
\* waits for a process that runs and was not terminated
Missed(w) ==
    \/ pc[w] = "spawning"
    \/ pc[w] = "wait" /\ processes[proc[w]].running /\ ~processes[proc[w]].terminated

\* run_script does return in the end when the signal is set and its process is
\* not one that shutdown() can miss
C13_ExceptMissed ==
    \A w \in AllScripts :
        (w \in Workers /\ shutdown_signal /\ Room /\ ~Missed(w)) ~> Returned(w)

----------------------------------------------------------------------------
(* A task that raises *)

Raised == \E t \in Tasks : pc[t] = "raised"

\* C15 as claimed: when a task has raised, one fatal-crash alert is sent, then
\* shutdown() runs, and the program exits with a status that is not 0.
C15_Original ==
    Raised =>
        /\ fatal_alerts = 1
        /\ mon_pc # "gather"
        /\ sd_pc["finally"] # "idle" => mon_pc \in {"shutdown", "exited"}
        /\ mon_pc = "exited" => sd_pc["finally"] = "done" /\ exit_status # 0

\* what does hold when a task has raised: one fatal-crash alert, then shutdown(),
\* and the program exits only when that shutdown() has returned
C15_AlertThenShutdown ==
    /\ fatal_alerts <= 1
    /\ Raised =>
          /\ fatal_alerts = 1
          /\ mon_pc # "gather"
          /\ sd_pc["finally"] # "idle" => mon_pc \in {"shutdown", "exited"}
          /\ mon_pc = "exited" => sd_pc["finally"] = "done"

----------------------------------------------------------------------------
(* restore_from_backup *)

\* the step is a call of restore_from_backup
RestoreStep == rs_turn' # rs_turn

\* C16: restore_from_backup with a name that has no folder under backups/
\* raises FileNotFoundError, and it raises it for no other name; the working
\* tree and the backups are then as they were.
C16_NotFound ==
    [][RestoreStep =>
          /\ rs_name' \notin DOMAIN backup_dir <=> rs_result' = "FileNotFoundError"
          /\ rs_result' = "FileNotFoundError" =>
                /\ tree' = tree
                /\ backup_dir' = backup_dir
                /\ bk_content' = bk_content]_vars

\* a restore that raised FileNotFoundError while another folder holds a backup
\* the working tree has moved away from
C16_Witness ==
    /\ rs_result = "FileNotFoundError"
    /\ rs_name \notin DOMAIN backup_dir
    /\ \E n \in DOMAIN backup_dir :
          backup_dir[n] /\ \E i \in DOMAIN bk_content[n] : tree[i] # bk_content[n][i]

\* C17 as claimed: every call of restore_from_backup sends an alert, the
\* success alert when it returns True and the failure alert in every other
\* case.
C17_Original ==
    [][RestoreStep =>
          rs_alert' = IF rs_result' = "True" THEN "success" ELSE "failed"]_vars

\* what does hold: a call that finds the folder sends the alert of its outcome
C17_AlertWhenFound ==
    [][(RestoreStep /\ rs_name' \in DOMAIN backup_dir) =>
          /\ rs_result' \in {"True", "False"}
          /\ rs_alert' = IF rs_result' = "True" THEN "success" ELSE "failed"]_vars

\* C18 as claimed: after a restore_from_backup that returned True, every item
\* the backup lists is in the working tree as the backup holds it, whatever was
\* at its path.
C18_Original ==
    [][(RestoreStep /\ rs_result' = "True") =>
          \A i \in DOMAIN bk_content[rs_name'] : tree'[i] = bk_content[rs_name'][i]]_vars

\* what does hold: it is so when no directory was at the path of a listed file
C18_FileOverFile ==
    [][(RestoreStep /\ rs_result' = "True") =>
          \A i \in DOMAIN bk_content[rs_name'] :
              (bk_content[rs_name'][i].kind = "file" => tree[i].kind # "dir")
                  => tree'[i] = bk_content[rs_name'][i]]_vars

----------------------------------------------------------------------------
(* The alerts of a backup cycle *)

\* C19 as claimed: a create_backup in which the backup or the cleanup failed
\* has sent an alert.
C19_Original ==
    bk_last \in {"backup_failed", "cleanup_failed"} => bk_alert = "failed"

\* what does hold: the alert is sent when, and only when, the backup itself
\* failed; and create_backup returns in either case, so that the loop goes on
C19_BackupFailureAlerted ==
    /\ bk_alert = "failed" <=> bk_last = "backup_failed"
    /\ bk_last \in {"none", "ok", "backup_failed", "cleanup_failed"}

----------------------------------------------------------------------------
(* A health check that raises *)

\* C20: a run_health_check that raises sends the "Health monitor error" alert
\* and no other, touches neither the alerts sent by type nor the cooldown
\* table, and returns when that alert has been sent: the exception never leaves
\* it, and run_health_monitor is back in its sleep, from which the next cycle
\* starts.
C20_ErrorCaught ==
    [][/\ (hm_pc = "idle" /\ hm_pc' = "error_alert") =>
              /\ hm_failed' /\ hm_cycle' = 1
              /\ hm_sent' = hm_sent
              /\ last_alert_time' = last_alert_time
       /\ hm_pc = "error_alert" =>
              /\ hm_pc' \in {"error_alert", "idle"}
              /\ hm_cycle' = hm_cycle /\ hm_failed' = hm_failed
              /\ hm_sent' = hm_sent
       /\ hm_failed' => hm_cycle' = 1 /\ hm_pc' \in {"error_alert", "idle"}
       /\ hm_pc' \in {"idle", "check", "sending", "error_alert"}
       /\ hm_failed # hm_failed' => hm_pc = "idle"]_vars

\* the cycle after one that raised is sending a health alert
C20_Witness ==
    /\ hm_after_failed
    /\ ~hm_failed
    /\ hm_pc = "sending"
    /\ hm_cycle = 1

----------------------------------------------------------------------------
(* send_alert never raises *)

\* C21: send_alert returns whatever the delivery met (a variable missing, a
\* status other than 200, an exception of the transport), logging what went
\* wrong; the run_script, run_health_check or create_backup that awaited it
\* goes on from the await as it does after a delivery, and none of them is
\* left by an exception.
C21_NeverRaises ==
    [][/\ send_alert.ends = "returned"
       /\ send_alert.logged = "none" <=> (BOT_TOKEN /\ CHAT_ID /\ resp = "200")
       /\ \A w \in Workers :
             /\ pc'[w] # "raised"
             /\ (pc[w] = "nf_alert" /\ pc'[w] # pc[w]) => pc'[w] = "done"
             /\ (pc[w] = "max_alert" /\ pc'[w] # pc[w]) => pc'[w] = "done"
             /\ (pc[w] = "exc_alert" /\ pc'[w] # pc[w]) =>
                   pc'[w] = "exc_sleep" /\ timer'[w] = 10 /\ alerts'[w] = alerts[w]
             /\ (pc[w] = "crash_alert" /\ pc'[w] # pc[w]) =>
                   /\ restart_counts'[w] = restart_counts[w] + 1
                   /\ alerts'[w].error = alerts[w].error
                   /\ IF restart_counts'[w] >= 5
                      THEN pc'[w] = "max_alert"
                      ELSE pc'[w] = "backoff"
                           /\ timer'[w] = IF returncode[w] = 1 THEN 3600 ELSE 30
       /\ hm_pc' # "raised"
       /\ (hm_pc = "sending" /\ hm_pc' # hm_pc) =>
             /\ hm_pc' = "check"
             /\ hm_todo' = Tail(hm_todo)
             /\ last_alert_time'[Head(hm_todo)] = current_time
             /\ hm_cycle' = hm_cycle
       /\ (hm_pc = "error_alert" /\ hm_pc' # hm_pc) => hm_pc' = "idle" /\ hm_cycle' = 1
       /\ bk_last' # "raised"
       /\ bk_alert' = "failed" => bk_last' = "backup_failed"]_vars

\* with a transport that raises, a worker has counted a crash and is in its
\* backoff, a health check has sent its alert and returned, and a create_backup
\* that failed has returned
C21_Witness ==
    /\ BOT_TOKEN /\ CHAT_ID /\ resp = "exception"
    /\ \E w \in Workers :
          pc[w] = "backoff" /\ restart_counts[w] = 1 /\ alerts[w].crashed = 1
    /\ hm_pc = "idle" /\ Len(hm_sent["system"]) = 1 /\ "system" \in DOMAIN last_alert_time
    /\ bk_alert = "failed" /\ bk_last = "backup_failed"

----------------------------------------------------------------------------
(* The staggered start of the workers *)

\* C22: the worker at position i of the list (counted from 0) calls
\* create_subprocess_exec for the first time when at least i x 10 s have gone
\* by since monitor() began; a worker is in its startup delay only before its
\* first launch, and a relaunch follows an exit or one of the sleeps of the
\* loop; a health or backup loop that has not begun its first cycle can begin
\* it at once, whatever the workers are in, and no time has gone by.
C22_Staggered ==
    /\ [](\A l \in Loops : pc[l] = "created" => (loop_time = 0 /\ ENABLED TaskStart(l)))
    /\ [][\A w \in Workers :
            /\ (pc[w] = "created" /\ pc'[w] # "created") =>
                  pc'[w] = "delay" /\ timer'[w] = (IndexOf(w) - 1) * 10
            /\ (pc[w] = "delay" /\ pc'[w] # "delay") => loop_time >= (IndexOf(w) - 1) * 10
            /\ (pc'[w] = "spawning" /\ pc[w] # "spawning" /\ proc[w] = 0) =>
                  pc[w] \in {"delay", "res_sleep"} /\ loop_time >= (IndexOf(w) - 1) * 10
            /\ (pc'[w] = "spawning" /\ pc[w] # "spawning" /\ proc[w] > 0) =>
                  pc[w] \in {"wait", "backoff", "res_sleep"}
            /\ pc'[w] = "delay" => pc[w] \in {"created", "delay"} /\ proc[w] = 0]_vars

\* ten seconds after the start the first worker has relaunched its process and
\* the second has launched its first, while the third is in its startup delay
\* and the two loops are in their interval sleeps
C22_Witness ==
    /\ loop_time = 10
    /\ Len(scripts) = 3
    /\ pc[scripts[1]] = "wait" /\ proc[scripts[1]] = 2
    /\ pc[scripts[2]] = "wait" /\ proc[scripts[2]] = 3
    /\ pc[scripts[3]] = "delay" /\ timer[scripts[3]] = 20
    /\ \A l \in Loops : pc[l] = "sleep"

----------------------------------------------------------------------------
(* The alerts of a worker's exits *)

\* the exits of w that run_script has seen: all of them, but for one it still
\* waits on
Seen(w) ==
    IF pc[w] = "wait" /\ ~processes[proc[w]].running /\ returncode[w] # 0
    THEN exits[w].nonzero - 1
    ELSE exits[w].nonzero

\* C23 as claimed: every non-zero exit sends one "crashed" alert, the one that
\* retires the worker too, before the "max restarts reached" alert; an exit
\* with code 0 sends none and is followed by a relaunch, at once or after the
\* wait of the resource gate.
C23_Original ==
    [][\A w \in Workers :
        /\ alerts'[w].crashed = Seen(w)'
        /\ (pc[w] = "wait" /\ pc'[w] # "wait" /\ returncode[w] # 0) =>
              /\ alerts'[w] = [alerts[w] EXCEPT !.crashed = @ + 1]
              /\ pc'[w] = "crash_alert"
              /\ returncode'[w] = returncode[w]
        /\ alerts'[w].maxed # alerts[w].maxed =>
              pc[w] = "crash_alert" /\ alerts[w].crashed = exits[w].nonzero
        /\ (pc[w] = "wait" /\ pc'[w] # "wait" /\ returncode[w] = 0) =>
              /\ alerts'[w] = alerts[w]
              /\ pc'[w] \in {"spawning", "res_sleep"}]_vars

\* C23, amended: every non-zero exit sends one "crashed" alert, built from
\* the script and the return code in the step that reads it, the one that
\* retires the worker too, before the "max restarts reached" alert; an exit
\* with code 0 sends none and takes run_script back to its while test, with no
\* sleep of a crash: it returns when the shutdown signal is set, waits the 10 s
\* of the resource gate when that refuses, and relaunches at once otherwise.
C23_Amended ==
    [][\A w \in Workers :
        /\ alerts'[w].crashed = Seen(w)'
        /\ (pc[w] = "wait" /\ pc'[w] # "wait" /\ returncode[w] # 0) =>
              /\ alerts'[w] = [alerts[w] EXCEPT !.crashed = @ + 1]
              /\ pc'[w] = "crash_alert"
              /\ returncode'[w] = returncode[w]
        /\ alerts'[w].maxed # alerts[w].maxed =>
              pc[w] = "crash_alert" /\ alerts[w].crashed = exits[w].nonzero
        /\ (pc[w] = "wait" /\ pc'[w] # "wait" /\ returncode[w] = 0) =>
              /\ alerts'[w] = alerts[w]
              /\ pc'[w] = IF shutdown_signal THEN "done"
                          ELSE IF mem_percent # MemError /\ mem_percent > 90 THEN "res_sleep"
                          ELSE "spawning"
              /\ timer'[w] = IF pc'[w] = "res_sleep" THEN 10 ELSE 0]_vars

\* a worker that crashed once, exited with code 0, then crashed five times in
\* a row: six "crashed" alerts, the sixth before the "max restarts reached" one
C23_Witness ==
    \E w \in Workers :
        /\ pc[w] = "max_alert"
        /\ alerts[w].crashed = 6 /\ exits[w].nonzero = 6
        /\ alerts[w].maxed = 1
        /\ ~shutdown_signal

----------------------------------------------------------------------------
(* The shutdown signal and the worker loops *)

\* C24: run_script calls create_subprocess_exec only in a step in which the
\* shutdown signal is not set, before the step and after it.
C24_NoSpawnAfterSignal ==
    [][\A w \in Workers :
        (pc'[w] = "spawning" /\ pc[w] # "spawning") =>
            ~shutdown_signal /\ ~shutdown_signal']_vars

\* a worker that left the backoff of a crash with the signal set and returned
\* from its while test
C24_Witness ==
    \E w \in Workers :
        /\ shutdown_signal
        /\ pc[w] = "done"
        /\ restart_counts[w] = 2 /\ proc[w] = 2
        /\ ~processes[proc[w]].terminated

\* the process of w was ended by the terminate or the kill of shutdown()
EndedByShutdown(w) ==
    /\ shutdown_signal
    /\ proc[w] > 0
    /\ processes[proc[w]].terminated
    /\ returncode[w] \in {SigTerm, SigKill}

\* C25 as claimed: a worker whose process was ended by shutdown() sends no
\* "crashed" or "max restarts reached" alert, counts no restart and does not
\* go to the sleep of a crash.
C25_Original ==
    [][\A w \in Workers :
        EndedByShutdown(w) =>
            /\ alerts'[w].crashed = alerts[w].crashed
            /\ alerts'[w].maxed = alerts[w].maxed
            /\ restart_counts'[w] = restart_counts[w]
            /\ pc'[w] = "backoff" => pc[w] = "backoff"]_vars

\* what does hold once the signal is set: a worker calls create_subprocess_exec
\* no more, and each of its passes through the while test ends run_script
C25_StopsAtWhileTest ==
    [][\A w \in Workers :
        shutdown_signal =>
            /\ pc'[w] = "spawning" => pc[w] = "spawning"
            /\ (pc[w] \in Sleeps /\ pc'[w] # pc[w]) => pc'[w] = "done"]_vars

\* C26: the shutdown signal is never cleared; it becomes set in a step that
\* begins a shutdown() call, every shutdown() call that begins leaves it set,
\* and a call that finds it set goes through its for loop like the first, to
\* its wait or to its end.
C26_Monotonic ==
    [][/\ shutdown_signal => shutdown_signal'
       /\ shutdown_signal' # shutdown_signal =>
             \E s \in ShutdownCalls : sd_pc[s] = "idle" /\ sd_pc'[s] # "idle"
       /\ \A s \in ShutdownCalls :
             /\ (sd_pc[s] = "idle" /\ sd_pc'[s] # "idle") => shutdown_signal'
             /\ sd_pc'[s] \in {"idle", "grace", "done"}
             /\ sd_pc[s] # "idle" => sd_pc'[s] # "idle"]_vars

\* three shutdown() calls, of two signals and of the finally clause, have all
\* returned, the second signal having come while the first call waited for a
\* process that had to be killed
C26_Witness ==
    /\ shutdown_signal
    /\ \A s \in ShutdownCalls : sd_pc[s] = "done"
    /\ sd_i["again"] > 1
    /\ \E i \in 1..Len(processes) : processes[i].killed

----------------------------------------------------------------------------
(* The output of the worker processes *)

\* the lines a process wrote to a stream, in the order it wrote them
Lines(i, s) == [k \in 1..wrote[i][s] |-> k]

\* proc.wait() has returned for process i
Waited(i) == i \in 1..Len(processes) /\ ~processes[i].running /\ ~Live(i)

\* C27 as claimed: when proc.wait() has returned, every line the process wrote
\* to a stream was given to the log, in the order written.
C27_Original ==
    \A i \in 1..MaxRuns, s \in Streams : Waited(i) => logged[i][s] = Lines(i, s)

\* what does hold: the log has the lines in the order written, none twice and
\* none left out before the last it has; it has them all when the shutdown
\* signal was never set; and a reader stops before the end of its stream only
\* with the signal set
C27_InOrder ==
    \A i \in 1..MaxRuns, s \in Streams :
        /\ logged[i][s] \o unread[i][s] = Lines(i, s)
        /\ (Waited(i) /\ ~shutdown_signal) => logged[i][s] = Lines(i, s)
        /\ (rd_pc[i][s] = "done" /\ unread[i][s] # <<>>) => shutdown_signal

----------------------------------------------------------------------------
(* The cooldown table, type by type *)

\* the time the table has for a type, 0 when it has none
LastOf(table, c) == Get(table, c, 0)

\* C28: the time the table has for a type changes only when send_alert has
\* returned for an alert of that type, and becomes the time that alert was sent
\* at; a breach that sends no alert leaves the table as it was; whether a
\* breach sends an alert depends on the time of its own type alone; and a step
\* of send_health_alert for one type leaves the table, the alerts sent and the
\* breaches dropped of the other types as they were.
C28_PerType ==
    [][/\ \A c \in Range(AlertTypes) :
             LastOf(last_alert_time', c) # LastOf(last_alert_time, c) =>
                 /\ hm_pc = "sending" /\ Head(hm_todo) = c
                 /\ LastOf(last_alert_time', c) = current_time
                 /\ hm_sent[c][Len(hm_sent[c])] = current_time
       /\ (hm_pc = "check" /\ hm_todo # <<>> /\ hm_pc' = "check" /\ hm_todo' # hm_todo) =>
             /\ last_alert_time' = last_alert_time
             /\ hm_sent' = hm_sent
             /\ clock - LastOf(last_alert_time, Head(hm_todo)) <= 1800
       /\ (hm_pc = "check" /\ hm_pc' = "sending") =>
             /\ last_alert_time' = last_alert_time
             /\ clock - LastOf(last_alert_time, Head(hm_todo)) > 1800
       /\ (hm_pc \in {"check", "sending"} /\ hm_todo # <<>>) =>
             \A d \in Range(AlertTypes) \ {Head(hm_todo)} :
                 /\ LastOf(last_alert_time', d) = LastOf(last_alert_time, d)
                 /\ hm_sent'[d] = hm_sent[d]
                 /\ hm_dropped'[d] = hm_dropped[d]]_vars

\* in one health check a breach of one type was dropped inside its window and
\* an alert of another type, which had none before, was sent
C28_Witness ==
    /\ hm_pc = "idle"
    /\ hm_dropped["system"] = clock
    /\ LastOf(last_alert_time, "system") < clock
    /\ LastOf(last_alert_time, "system") > 0
    /\ hm_sent["files"] = <<clock>>
    /\ LastOf(last_alert_time, "files") = clock
    /\ "corruption" \notin DOMAIN last_alert_time

----------------------------------------------------------------------------
(* The processes shutdown() leaves behind *)

\* C29 as claimed: when a shutdown() call has returned, every process the
\* supervisor spawned has exited or was sent a terminate.
C29_Original ==
    \A s \in ShutdownCalls :
        sd_pc[s] = "done" =>
            \A i \in 1..Len(processes) : processes[i].running => processes[i].terminated

\* what does hold: it is so of the processes that were in the list when the
\* for loop of that call came to its end
C29_TrackedTerminated ==
    \A s \in ShutdownCalls :
        sd_pc[s] = "done" =>
            \A i \in 1..Len(processes) :
                (i < sd_i[s] /\ processes[i].running) => processes[i].terminated

----------------------------------------------------------------------------
(* The folders under backups/ *)

\* C30 as claimed: every folder under backups/ holds its backup_info.json.
C30_Original ==
    \A n \in DOMAIN backup_dir : backup_dir[n]

\* what does hold: the folder of a create_backup that wrote its manifest is
\* under backups/ with it, whether the cleanup that followed failed or not
C30_LastComplete ==
    bk_last \in {"ok", "cleanup_failed"} =>
        LET last == CHOOSE k \in bk_created : \A j \in bk_created : j <= k
        IN  /\ Format(last) \in DOMAIN backup_dir
            /\ backup_dir[Format(last)]

----------------------------------------------------------------------------
(* The file index of the indexer bot *)

InIndex(m) == \E i \in 1..Len(INDEX_FILE) : INDEX_FILE[i] = m

\* C31 as claimed: with no filesystem error at all, an entry on_new_media
\* saved is in file_index.json for as long as no cleanup pass has found its
\* message deleted.
C31_Original ==
    ib_faults = 0 =>
        \A m \in indexed : m \in found_deleted \/ InIndex(m)

\* what does hold: with no filesystem error, such an entry leaves the file
\* only at the save of a cleanup pass whose list, loaded before the entry was
\* added, does not have it
C31_LostAtStaleSave ==
    [][\A m \in indexed :
          (ib_faults' = 0 /\ InIndex(m) /\ ~InIndex(m)' /\ m \notin found_deleted')
              => /\ cd_pc \in {"get_messages", "delay"}
                 /\ cd_pc' = "sleep"
                 /\ m \notin Range(cd_index)]_vars

====
